---- MODULE Spec2Model ----
(***************************************************************************)
(* File Forge: converter resolution and invocation core                    *)
(* (src/src/lib/convert-core.ts) and its callers.                          *)
(*                                                                         *)
(* Strings are sequences of chunks.  A chunk is one of the separator       *)
(* characters ".", " ", "/" or a run of other characters ("png", "PNG",    *)
(* "photo", "-converted-", a UUID).  The string operations of the source   *)
(* (trim, replace(/^\./), toLowerCase, path.extname, path.join) act on     *)
(* chunk boundaries, so they are modelled chunk by chunk.                  *)
(***************************************************************************)
EXTENDS Integers, Sequences, FiniteSets, TLC

VARIABLES
    \* normalizeExt applied twice to one input
    normIn, normOnce, normTwice, normStage,
    \* pickDefaultOutput applied to one (category, outputs) pair
    pickCat, pickOutputs, pickResult, pickStage,
    \* the machine: process.platform === "win32", and per tool kind the configured
    \* path, the command names on the search path, the Program Files scan
    isWindows, env,
    \* toolCache, and the external processes started so far
    toolCache, probeRuns, listRuns, listFailed, cacheWrites,
    \* detectConverter calls: position, argument, locals, result
    pc, callExt, callIdx, callBin, callTools, callResult, callProcs,
    callsStarted,
    \* randomUUID calls so far, and the buildOutputPath calls made: arguments and result
    uuidCount, built,
    \* the files that exist, and the convertWithTool call: position, arguments,
    \* whether the destination existed, processes started, how it ended
    fs, convPc, convOpts, convExisted, convProcs, convOutcome, convError, convResult,
    convCalls,
    \* what the failed tool process reported, and the message of the Error thrown
    convFailure, convMessage,
    \* the clipboard, the readClipboardFile call (position, path candidate, how
    \* it ended) and the state of the Convert Clipboard command
    clipboard, readPc, readCandidate, readOutcome, readResult, readCalls,
    clipInputPath, clipLoading,
    \* the command that runs and its React state: inputPath, decision,
    \* outputFormat, loading; the runs of the converter-lookup effect; the
    \* ConvertForm that was pushed; the handleSubmit run; the convertWithTool
    \* calls the submit handlers made
    command, uiInputPath, uiDecision, uiOutputFormat, uiLoading, lookups, form, submit,
    submits, convertCalls

normVars == <<normIn, normOnce, normTwice, normStage>>
pickVars == <<pickCat, pickOutputs, pickResult, pickStage>>
envVars == <<isWindows, env>>
cacheVars == <<toolCache, probeRuns, listRuns, listFailed, cacheWrites>>
callVars == <<pc, callExt, callIdx, callBin, callTools, callResult, callProcs, callsStarted>>
regVars == <<envVars, cacheVars, callVars>>
pathVars == <<uuidCount, built>>
convVars == <<fs, convPc, convOpts, convExisted, convProcs, convOutcome, convError,
              convResult, convCalls, convFailure, convMessage>>
clipVars == <<clipboard, readPc, readCandidate, readOutcome, readResult, readCalls,
              clipInputPath, clipLoading>>
uiVars == <<command, uiInputPath, uiDecision, uiOutputFormat, uiLoading, lookups, form,
            submit, submits, convertCalls>>
vars == <<normVars, pickVars, regVars, pathVars, convVars, clipVars, uiVars>>
notNorm == <<pickVars, regVars, pathVars, convVars, clipVars, uiVars>>
notPick == <<normVars, regVars, pathVars, convVars, clipVars, uiVars>>
notReg == <<normVars, pickVars, pathVars, convVars, clipVars, uiVars>>
notPath == <<normVars, pickVars, regVars, convVars, clipVars, uiVars>>
notPathConv == <<normVars, pickVars, regVars, clipVars, uiVars>>
notClip == <<normVars, pickVars, regVars, pathVars, convVars, uiVars>>
\* what the commands' components never change
notUi == <<normVars, pickVars, envVars, callVars, built, convPc, convOpts, convExisted,
           convProcs, convOutcome, convError, convResult, convCalls, convFailure,
           convMessage, clipVars>>

\* ------------------------------------------------------------ bounds
MaxNormLen == 3
MaxOutputs == 3
MaxCalls == 2
NumSlots == 2
MaxBuilds == 2
MaxConverts == 1
MaxReads == 2
MaxLookups == 2
MaxSubmits == 1

\* ------------------------------------------------------------ strings
Range(s) == {s[i] : i \in DOMAIN s}

SeqsUpTo(S, n) == UNION {[1..k -> S] : k \in 0..n}

S1(w) == <<w>>

IsSpace(c) == c = " "

\* String.prototype.toLowerCase, chunk by chunk
LowerChunk(c) ==
    CASE c = "PNG" -> "png"
      [] c = "HEIC" -> "heic"
      [] c = "MP4" -> "mp4"
      [] c = "GIF" -> "gif"
      [] c = "JPG" -> "jpg"
      [] c = "PDF" -> "pdf"
      [] c = "HTML" -> "html"
      [] c = "R" -> "r"
      [] c = "W" -> "w"
      [] OTHER -> c

toLowerCase(s) == [i \in DOMAIN s |-> LowerChunk(s[i])]

RECURSIVE trimStart(_)
trimStart(s) ==
    IF s # <<>> /\ IsSpace(Head(s)) THEN trimStart(Tail(s)) ELSE s

RECURSIVE trimEnd(_)
trimEnd(s) ==
    IF s # <<>> /\ IsSpace(s[Len(s)]) THEN trimEnd(SubSeq(s, 1, Len(s) - 1)) ELSE s

\* String.prototype.trim
trim(s) == trimEnd(trimStart(s))

\* value.replace(/^\./, ""): removes one leading dot, if there is one
replaceLeadingDot(s) == IF s # <<>> /\ Head(s) = "." THEN Tail(s) ELSE s

normalizeExt(value) == toLowerCase(replaceLeadingDot(trim(value)))

\* ------------------------------------------------------------ normalizeExt, twice
NormAlphabet == {".", " ", "png", "PNG"}

NormInputs == SeqsUpTo(NormAlphabet, MaxNormLen)

NormIdle ==
    /\ normIn = <<>>
    /\ normOnce = <<>>
    /\ normTwice = <<>>
    /\ normStage = 0

NormInit ==
    /\ normIn \in NormInputs
    /\ normOnce = <<>>
    /\ normTwice = <<>>
    /\ normStage = 0

NormalizeOnce ==
    /\ normStage = 0
    /\ normOnce' = normalizeExt(normIn)
    /\ normStage' = 1
    /\ UNCHANGED <<normIn, normTwice, notNorm>>

NormalizeTwice ==
    /\ normStage = 1
    /\ normTwice' = normalizeExt(normOnce)
    /\ normStage' = 2
    /\ UNCHANGED <<normIn, normOnce, notNorm>>

NormNext == NormalizeOnce \/ NormalizeTwice

\* ------------------------------------------------------------ pickDefaultOutput
FileCategories == {"image", "audio", "video", "doc", "unknown"}

preferredByCategory(category) ==
    CASE category = "image" -> <<S1("png"), S1("jpg"), S1("jpeg"), S1("webp")>>
      [] category = "audio" -> <<S1("wav"), S1("mp3"), S1("aac")>>
      [] category = "video" -> <<S1("mp4"), S1("mov"), S1("mkv")>>
      [] category = "doc" -> <<S1("pdf"), S1("docx"), S1("txt")>>
      [] category = "unknown" -> <<S1("png"), S1("pdf"), S1("mp4")>>
      [] OTHER -> <<>>

\* for (const candidate of preferred) if (outputs.includes(candidate)) return candidate
RECURSIVE firstPreferredIn(_, _)
firstPreferredIn(preferred, outputs) ==
    IF preferred = <<>> THEN <<"undefined">>
    ELSE IF Head(preferred) \in Range(outputs) THEN Head(preferred)
    ELSE firstPreferredIn(Tail(preferred), outputs)

\* a variant that takes the first output that is preferred at all
RECURSIVE firstOutputPreferred(_, _)
firstOutputPreferred(preferred, outputs) ==
    IF outputs = <<>> THEN <<"undefined">>
    ELSE IF Head(outputs) \in Range(preferred) THEN Head(outputs)
    ELSE firstOutputPreferred(preferred, Tail(outputs))

pickDefaultOutput_byOutputOrder(category, outputs) ==
    LET preferred == preferredByCategory(category)
        hit == firstOutputPreferred(preferred, outputs)
    IN  IF hit # <<"undefined">> THEN hit
        ELSE IF Len(outputs) > 0 THEN outputs[1]
        ELSE IF Len(preferred) > 0 THEN preferred[1]
        ELSE S1("png")

\* a variant that ignores the tool's outputs
pickDefaultOutput_firstPreferred(category, outputs) == preferredByCategory(category)[1]

pickDefaultOutput(category, outputs) ==
    LET preferred == preferredByCategory(category)
        hit == firstPreferredIn(preferred, outputs)
    IN  IF hit # <<"undefined">> THEN hit
        ELSE IF Len(outputs) > 0 THEN outputs[1]
        ELSE IF Len(preferred) > 0 THEN preferred[1]
        ELSE S1("png")

\* the output lists handed to pickDefaultOutput are tool descriptors' lists:
\* their entries are non-empty strings
PickUniverse == {S1("mp4"), S1("mov"), S1("mkv"), S1("png"), S1("pdf"), S1("xyz")}

PickIdle ==
    /\ pickCat = "unknown"
    /\ pickOutputs = <<>>
    /\ pickResult = <<>>
    /\ pickStage = 0

PickInit ==
    /\ pickCat \in FileCategories
    /\ pickOutputs \in SeqsUpTo(PickUniverse, MaxOutputs)
    /\ pickResult = <<>>
    /\ pickStage = 0

PickApply ==
    /\ pickStage = 0
    /\ pickResult' = pickDefaultOutput(pickCat, pickOutputs)
    /\ pickStage' = 1
    /\ UNCHANGED <<pickCat, pickOutputs, notPick>>

PickNext == PickApply

\* ------------------------------------------------------------ tool registry
Kinds == {"magick", "ffmpeg", "pandoc", "libreoffice"}

\* the order in which detectConverter awaits the four ensure* functions
KindOrder == <<"magick", "ffmpeg", "pandoc", "libreoffice">>

imagePreferredExts ==
    {S1("png"), S1("jpg"), S1("jpeg"), S1("gif"), S1("webp"), S1("bmp"), S1("tif"),
     S1("tiff"), S1("heic"), S1("heif"), S1("avif"), S1("svg"), S1("ico"), S1("psd"),
     S1("tga")}

audioExts ==
    {S1("aac"), S1("aiff"), S1("alac"), S1("flac"), S1("m4a"), S1("mp3"), S1("ogg"),
     S1("opus"), S1("wav"), S1("wma")}

videoExts ==
    {S1("avi"), S1("mkv"), S1("mov"), S1("mp4"), S1("m4v"), S1("webm"), S1("wmv"),
     S1("flv")}

libreOfficeInput ==
    <<S1("doc"), S1("docx"), S1("xls"), S1("xlsx"), S1("ppt"), S1("pptx"), S1("odt"),
      S1("ods"), S1("odp"), S1("rtf"), S1("txt"), S1("csv"), S1("html"), S1("htm")>>

libreOfficeOutput ==
    <<S1("pdf"), S1("docx"), S1("xlsx"), S1("pptx"), S1("odt"), S1("ods"), S1("odp"),
      S1("rtf"), S1("txt"), S1("html")>>

\* Array.prototype.sort without a comparator orders strings by code unit:
\* the chunks that occur in format lists, in that order
ChunkOrder ==
    <<" ", "*", ".", "/", "3gp", "PNG", "csv", "doc", "docx", "gif", "htm", "html", "jpg",
      "latex", "m4a", "markdown", "mov", "mp4", "odp", "ods", "odt", "pdf", "plain", "png",
      "ppt", "pptx", "rtf", "txt", "wav", "xls", "xlsx">>

ChunkRank(c) ==
    IF \E i \in DOMAIN ChunkOrder : ChunkOrder[i] = c
    THEN CHOOSE i \in DOMAIN ChunkOrder : ChunkOrder[i] = c
    ELSE 0

RECURSIVE StrLess(_, _)
StrLess(a, b) ==
    IF b = <<>> THEN FALSE
    ELSE IF a = <<>> THEN TRUE
    ELSE IF Head(a) = Head(b) THEN StrLess(Tail(a), Tail(b))
    ELSE ChunkRank(Head(a)) < ChunkRank(Head(b))

RECURSIVE insertSorted(_, _)
insertSorted(v, sorted) ==
    IF sorted = <<>> THEN <<v>>
    ELSE IF v = Head(sorted) THEN sorted
    ELSE IF StrLess(v, Head(sorted)) THEN <<v>> \o sorted
    ELSE <<Head(sorted)>> \o insertSorted(v, Tail(sorted))

\* Array.from(new Set(values.filter(Boolean))).sort()
RECURSIVE uniqueSorted(_)
uniqueSorted(values) ==
    IF values = <<>> THEN <<>>
    ELSE IF Head(values) = <<>> THEN uniqueSorted(Tail(values))
    ELSE insertSorted(Head(values), uniqueSorted(Tail(values)))

\* what `magick -list format` prints, one record per table row:
\* the first column and the mode column
MagickListing ==
    <<[format |-> <<"PNG", "*">>, mode |-> <<"r", "w", "-">>],
      [format |-> <<"GIF", "*">>, mode |-> <<"r", "w", "+">>],
      [format |-> <<"JPG", "*">>, mode |-> <<"r", "w", "-">>],
      [format |-> <<"MP4">>, mode |-> <<"r", "-", "-">>],
      [format |-> <<"PDF">>, mode |-> <<"r", "w", "+">>],
      [format |-> <<"HTML">>, mode |-> <<"-", "w", "-">>]>>

\* what `ffmpeg -formats` prints: the D and E flags and the comma-separated names
FfmpegListing ==
    <<[demux |-> TRUE, mux |-> FALSE, names |-> <<S1("mov"), S1("mp4"), S1("m4a"), S1("3gp")>>],
      [demux |-> FALSE, mux |-> TRUE, names |-> <<S1("mp4")>>],
      [demux |-> FALSE, mux |-> TRUE, names |-> <<S1("mov")>>],
      [demux |-> TRUE, mux |-> TRUE, names |-> <<S1("wav")>>],
      [demux |-> TRUE, mux |-> TRUE, names |-> <<S1("gif")>>]>>

\* what `pandoc --list-input-formats` and `--list-output-formats` print,
\* split at white space (the trailing newline leaves an empty last entry)
PandocInputListing == <<S1("docx"), S1("html"), S1("markdown"), <<>>>>

PandocOutputListing == <<S1("docx"), S1("html"), S1("latex"), S1("plain"), <<>>>>

stripTrailingStar(s) ==
    IF s # <<>> /\ s[Len(s)] = "*" THEN SubSeq(s, 1, Len(s) - 1) ELSE s

NoFormats == [input |-> <<>>, output |-> <<>>, threw |-> FALSE]

FormatsThrew == [input |-> <<>>, output |-> <<>>, threw |-> TRUE]

\* the loop of loadMagickFormats: the normalized names of the rows whose mode
\* column holds the flag ("r" for input.push, "w" for output.push)
RECURSIVE magickNames(_, _)
magickNames(rows, flag) ==
    IF rows = <<>> THEN <<>>
    ELSE LET row == Head(rows)
             normalized == normalizeExt(stripTrailingStar(row.format))
         IN  IF row.format # <<>> /\ row.mode # <<>> /\ flag \in Range(toLowerCase(row.mode))
             THEN <<normalized>> \o magickNames(Tail(rows), flag)
             ELSE magickNames(Tail(rows), flag)

parseMagickFormats(rows) ==
    [input |-> uniqueSorted(magickNames(rows, "r")),
     output |-> uniqueSorted(magickNames(rows, "w")),
     threw |-> FALSE]

\* the loop of loadFfmpegFormats: the normalized names of the rows flagged D
\* (demux, input.push) or E (mux, output.push)
RECURSIVE ffmpegNames(_, _)
ffmpegNames(rows, flag) ==
    IF rows = <<>> THEN <<>>
    ELSE LET row == Head(rows)
             formats == [i \in DOMAIN row.names |-> normalizeExt(row.names[i])]
         IN  IF (flag = "D" /\ row.demux) \/ (flag = "E" /\ row.mux)
             THEN formats \o ffmpegNames(Tail(rows), flag)
             ELSE ffmpegNames(Tail(rows), flag)

parseFfmpegFormats(rows) ==
    [input |-> uniqueSorted(ffmpegNames(rows, "D")),
     output |-> uniqueSorted(ffmpegNames(rows, "E")),
     threw |-> FALSE]

parsePandocFormats(inWords, outWords) ==
    [input |-> uniqueSorted([i \in DOMAIN inWords |-> normalizeExt(inWords[i])]),
     output |-> uniqueSorted([i \in DOMAIN outWords |-> normalizeExt(outWords[i])]),
     threw |-> FALSE]

\* the lists each tool's listing parses to
MagickFormats == parseMagickFormats(MagickListing)

FfmpegFormats == parseFfmpegFormats(FfmpegListing)

PandocFormats == parsePandocFormats(PandocInputListing, PandocOutputListing)

parseListing(kind) ==
    CASE kind = "magick" -> MagickFormats
      [] kind = "ffmpeg" -> FfmpegFormats
      [] kind = "pandoc" -> PandocFormats
      [] OTHER -> NoFormats

\* a variant in which a failing format-listing command is not caught
loadFormats_uncaught(kind, ok) == IF ok THEN parseListing(kind) ELSE FormatsThrew

\* load{Magick,Ffmpeg,Pandoc}Formats: try { exec; parse } catch { empty lists };
\* ok says whether the format-listing command ran successfully
loadFormats(kind, ok) == IF ok THEN parseListing(kind) ELSE NoFormats

\* ------------------------------------------------------------ resolution strategies
\* the command names findBinary is asked for, in order
candidates(kind, win) ==
    CASE kind = "magick" -> IF win THEN <<"magick">> ELSE <<"magick", "convert">>
      [] kind = "ffmpeg" -> <<"ffmpeg">>
      [] kind = "pandoc" -> <<"pandoc">>
      [] kind = "libreoffice" -> IF win THEN <<"soffice">> ELSE <<"soffice", "libreoffice">>

\* resolvePreferred: null for a blank preference, else one probe process
resolvePreferred(e) == IF e.pref = "ok" THEN "preferredPath" ELSE "null"

preferredProcs(e) == IF e.pref = "unset" THEN 0 ELSE 1

\* the first candidate that `which`/`where` finds, 0 if none
firstFound(cands, e) ==
    IF \E i \in DOMAIN cands : cands[i] \in e.onPath
    THEN CHOOSE i \in DOMAIN cands :
            cands[i] \in e.onPath /\ \A j \in 1..(i - 1) : cands[j] \notin e.onPath
    ELSE 0

\* findMagickOnWindows: the Program Files scan, on Windows only
findMagickOnWindows(e, win) == IF win /\ e.winDir THEN "magick.exe" ELSE "null"

\* the executable the resolution strategies of ensure<Kind> settle on ("null" if
\* every strategy fails) and the number of external processes they start
resolveBin(kind, e, win) ==
    LET preferred == resolvePreferred(e)
        cands == candidates(kind, win)
        hit == firstFound(cands, e)
    IN  IF preferred # "null" THEN [bin |-> preferred, procs |-> preferredProcs(e)]
        ELSE IF hit # 0 THEN [bin |-> cands[hit], procs |-> preferredProcs(e) + hit]
        ELSE [bin |-> IF kind = "magick" THEN findMagickOnWindows(e, win) ELSE "null",
              procs |-> preferredProcs(e) + Len(cands)]

\* ------------------------------------------------------------ toolCache entries
Undefined == [state |-> "undefined", bin |-> "", input |-> <<>>, output |-> <<>>]

Null == [state |-> "null", bin |-> "", input |-> <<>>, output |-> <<>>]

ToolFormats(bin, formats) ==
    [state |-> "tool", bin |-> bin, input |-> formats.input, output |-> formats.output]

LibreOfficeFormats == [input |-> libreOfficeInput, output |-> libreOfficeOutput, threw |-> FALSE]

\* a variant that tests the memo entry for truthiness
memoHit_truthy(entry) == entry.state = "tool"

\* if (toolCache.<kind> !== undefined) return toolCache.<kind> ?? null
memoHit(entry) == entry.state # "undefined"

\* the number of processes a format listing starts (pandoc is asked twice)
listingProcs(kind) == IF kind = "pandoc" THEN 2 ELSE 1

\* ------------------------------------------------------------ detectConverter
getCategory(ext, kind) ==
    IF kind = "magick" THEN "image"
    ELSE IF kind = "pandoc" \/ kind = "libreoffice" THEN "doc"
    ELSE IF ext \in audioExts THEN "audio"
    ELSE IF ext \in videoExts THEN "video"
    ELSE "unknown"

NoDecision == [kind |-> "none", tool |-> Null, category |-> "unknown", defaultOutput |-> <<>>]

Decision(kind, tool, ext) ==
    LET category == getCategory(ext, kind)
    IN  [kind |-> kind, tool |-> tool, category |-> category,
         defaultOutput |-> pickDefaultOutput(category, tool.output)]

\* tool?.input.includes(ext)
inputIncludes(tool, ext) == tool.state = "tool" /\ ext \in Range(tool.input)

\* a variant without the catch-all steps
selectConverter_strict(ext, magick, ffmpeg, pandoc, libreoffice) ==
    IF ext \in imagePreferredExts /\ inputIncludes(magick, ext) THEN Decision("magick", magick, ext)
    ELSE IF inputIncludes(ffmpeg, ext) THEN Decision("ffmpeg", ffmpeg, ext)
    ELSE IF inputIncludes(pandoc, ext) THEN Decision("pandoc", pandoc, ext)
    ELSE IF inputIncludes(libreoffice, ext) THEN Decision("libreoffice", libreoffice, ext)
    ELSE IF inputIncludes(magick, ext) THEN Decision("magick", magick, ext)
    ELSE NoDecision

\* a variant that tries the office tool before the markup tool
selectConverter_officeFirst(ext, magick, ffmpeg, pandoc, libreoffice) ==
    IF ext \in imagePreferredExts /\ inputIncludes(magick, ext) THEN Decision("magick", magick, ext)
    ELSE IF inputIncludes(ffmpeg, ext) THEN Decision("ffmpeg", ffmpeg, ext)
    ELSE IF inputIncludes(libreoffice, ext) THEN Decision("libreoffice", libreoffice, ext)
    ELSE IF inputIncludes(pandoc, ext) THEN Decision("pandoc", pandoc, ext)
    ELSE IF inputIncludes(magick, ext) THEN Decision("magick", magick, ext)
    ELSE IF magick.state = "tool" THEN Decision("magick", magick, ext)
    ELSE IF ffmpeg.state = "tool" THEN Decision("ffmpeg", ffmpeg, ext)
    ELSE IF pandoc.state = "tool" THEN Decision("pandoc", pandoc, ext)
    ELSE IF libreoffice.state = "tool" THEN Decision("libreoffice", libreoffice, ext)
    ELSE NoDecision

\* a variant whose catch-all steps try the media tool first
selectConverter_mediaCatchAll(ext, magick, ffmpeg, pandoc, libreoffice) ==
    IF ext \in imagePreferredExts /\ inputIncludes(magick, ext) THEN Decision("magick", magick, ext)
    ELSE IF inputIncludes(ffmpeg, ext) THEN Decision("ffmpeg", ffmpeg, ext)
    ELSE IF inputIncludes(pandoc, ext) THEN Decision("pandoc", pandoc, ext)
    ELSE IF inputIncludes(libreoffice, ext) THEN Decision("libreoffice", libreoffice, ext)
    ELSE IF inputIncludes(magick, ext) THEN Decision("magick", magick, ext)
    ELSE IF ffmpeg.state = "tool" THEN Decision("ffmpeg", ffmpeg, ext)
    ELSE IF pandoc.state = "tool" THEN Decision("pandoc", pandoc, ext)
    ELSE IF libreoffice.state = "tool" THEN Decision("libreoffice", libreoffice, ext)
    ELSE IF magick.state = "tool" THEN Decision("magick", magick, ext)
    ELSE NoDecision

\* the if-chain of detectConverter over the four resolved tools
selectConverter(ext, magick, ffmpeg, pandoc, libreoffice) ==
    IF ext \in imagePreferredExts /\ inputIncludes(magick, ext) THEN Decision("magick", magick, ext)
    ELSE IF inputIncludes(ffmpeg, ext) THEN Decision("ffmpeg", ffmpeg, ext)
    ELSE IF inputIncludes(pandoc, ext) THEN Decision("pandoc", pandoc, ext)
    ELSE IF inputIncludes(libreoffice, ext) THEN Decision("libreoffice", libreoffice, ext)
    ELSE IF inputIncludes(magick, ext) THEN Decision("magick", magick, ext)
    ELSE IF magick.state = "tool" THEN Decision("magick", magick, ext)
    ELSE IF ffmpeg.state = "tool" THEN Decision("ffmpeg", ffmpeg, ext)
    ELSE IF pandoc.state = "tool" THEN Decision("pandoc", pandoc, ext)
    ELSE IF libreoffice.state = "tool" THEN Decision("libreoffice", libreoffice, ext)
    ELSE NoDecision

Slots == 1..NumSlots

\* the slots that run one call after the other
SeqSlots == {1}

\* the extensions detectConverter is called with: getFileExt of the input file
DetectExts ==
    {S1("png"), S1("mp4"), S1("html"), S1("pdf"), S1("txt"), S1("xyz"), <<>>}

NotInstalled == [pref |-> "unset", onPath |-> {}, winDir |-> FALSE]

OnPath(names) == [pref |-> "unset", onPath |-> names, winDir |-> FALSE]

Preferred(state) == [pref |-> state, onPath |-> {}, winDir |-> FALSE]

InProgramFiles == [pref |-> "unset", onPath |-> {}, winDir |-> TRUE]

EnvChoices(kind) ==
    CASE kind = "magick" ->
            {NotInstalled, Preferred("ok"), Preferred("broken"), OnPath({"magick"}),
             OnPath({"convert"}), InProgramFiles}
      [] kind = "ffmpeg" -> {NotInstalled, Preferred("ok"), OnPath({"ffmpeg"})}
      [] kind = "pandoc" -> {NotInstalled, Preferred("ok"), OnPath({"pandoc"})}
      [] kind = "libreoffice" ->
            {NotInstalled, Preferred("ok"), OnPath({"soffice"}), OnPath({"libreoffice"})}

RegIdle ==
    /\ isWindows = FALSE
    /\ env = [k \in Kinds |-> NotInstalled]
    /\ toolCache = [k \in Kinds |-> Undefined]
    /\ probeRuns = [k \in Kinds |-> 0]
    /\ listRuns = [k \in Kinds |-> 0]
    /\ listFailed = [k \in Kinds |-> FALSE]
    /\ cacheWrites = [k \in Kinds |-> 0]
    /\ pc = [c \in Slots |-> "idle"]
    /\ callExt = [c \in Slots |-> <<>>]
    /\ callIdx = [c \in Slots |-> 1]
    /\ callBin = [c \in Slots |-> "null"]
    /\ callTools = [c \in Slots |-> [k \in Kinds |-> Undefined]]
    /\ callResult = [c \in Slots |-> NoDecision]
    /\ callProcs = [c \in Slots |-> 0]
    /\ callsStarted = 0

RegInit ==
    /\ isWindows \in BOOLEAN
    /\ env \in [Kinds -> UNION {EnvChoices(k) : k \in Kinds}]
    /\ \A k \in Kinds : env[k] \in EnvChoices(k)
    /\ toolCache = [k \in Kinds |-> Undefined]
    /\ probeRuns = [k \in Kinds |-> 0]
    /\ listRuns = [k \in Kinds |-> 0]
    /\ listFailed = [k \in Kinds |-> FALSE]
    /\ cacheWrites = [k \in Kinds |-> 0]
    /\ pc = [c \in Slots |-> "idle"]
    /\ callExt = [c \in Slots |-> <<>>]
    /\ callIdx = [c \in Slots |-> 1]
    /\ callBin = [c \in Slots |-> "null"]
    /\ callTools = [c \in Slots |-> [k \in Kinds |-> Undefined]]
    /\ callResult = [c \in Slots |-> NoDecision]
    /\ callProcs = [c \in Slots |-> 0]
    /\ callsStarted = 0

\* detectConverter(ext) is called: it goes on to await ensureMagick()
StartDetect(c, ext) ==
    /\ pc[c] \in {"idle", "done", "threw"}
    /\ callsStarted < MaxCalls
    /\ pc' = [pc EXCEPT ![c] = "ensure"]
    /\ callExt' = [callExt EXCEPT ![c] = ext]
    /\ callIdx' = [callIdx EXCEPT ![c] = 1]
    /\ callBin' = [callBin EXCEPT ![c] = "null"]
    /\ callTools' = [callTools EXCEPT ![c] = [k \in Kinds |-> Undefined]]
    /\ callResult' = [callResult EXCEPT ![c] = NoDecision]
    /\ callProcs' = [callProcs EXCEPT ![c] = 0]
    /\ callsStarted' = callsStarted + 1
    /\ UNCHANGED <<envVars, cacheVars, notReg>>

\* one call at a time: the next call starts when no call is in flight
StartDetectSeq(c, ext) ==
    /\ \A d \in Slots : pc[d] \in {"idle", "done", "threw"}
    /\ StartDetect(c, ext)

\* after ensure<kind> has returned: on to the next ensure, or to the if-chain
nextPc(idx) == IF idx < Len(KindOrder) THEN "ensure" ELSE "decide"

nextIdx(idx) == IF idx < Len(KindOrder) THEN idx + 1 ELSE idx

\* ensure<Kind>, first line: a memo entry other than undefined is returned as it
\* is; otherwise the resolution strategies start
EnsureEnter(c) ==
    LET k == KindOrder[callIdx[c]] IN
    /\ pc[c] = "ensure"
    /\ IF memoHit(toolCache[k])
       THEN /\ callTools' = [callTools EXCEPT ![c][k] = toolCache[k]]
            /\ pc' = [pc EXCEPT ![c] = nextPc(callIdx[c])]
            /\ callIdx' = [callIdx EXCEPT ![c] = nextIdx(callIdx[c])]
            /\ UNCHANGED probeRuns
       ELSE /\ pc' = [pc EXCEPT ![c] = "resolve"]
            /\ probeRuns' = [probeRuns EXCEPT ![k] = @ + 1]
            /\ UNCHANGED <<callTools, callIdx>>
    /\ UNCHANGED <<envVars, toolCache, listRuns, listFailed, cacheWrites, callExt, callBin,
                   callResult, callProcs, callsStarted, notReg>>

\* ensure<Kind>, the resolution strategies have run: no executable writes null
\* into the memo; LibreOffice writes its fixed lists; the others go on to ask
\* the executable for its formats
EnsureResolve(c) ==
    LET k == KindOrder[callIdx[c]]
        r == resolveBin(k, env[k], isWindows)
    IN
    /\ pc[c] = "resolve"
    /\ callProcs' = [callProcs EXCEPT ![c] = @ + r.procs]
    /\ IF r.bin = "null"
       THEN /\ toolCache' = [toolCache EXCEPT ![k] = Null]
            /\ cacheWrites' = [cacheWrites EXCEPT ![k] = @ + 1]
            /\ callTools' = [callTools EXCEPT ![c][k] = Null]
            /\ pc' = [pc EXCEPT ![c] = nextPc(callIdx[c])]
            /\ callIdx' = [callIdx EXCEPT ![c] = nextIdx(callIdx[c])]
            /\ UNCHANGED callBin
       ELSE IF k = "libreoffice"
       THEN /\ toolCache' = [toolCache EXCEPT ![k] = ToolFormats(r.bin, LibreOfficeFormats)]
            /\ cacheWrites' = [cacheWrites EXCEPT ![k] = @ + 1]
            /\ callTools' = [callTools EXCEPT ![c][k] = ToolFormats(r.bin, LibreOfficeFormats)]
            /\ pc' = [pc EXCEPT ![c] = nextPc(callIdx[c])]
            /\ callIdx' = [callIdx EXCEPT ![c] = nextIdx(callIdx[c])]
            /\ UNCHANGED callBin
       ELSE /\ callBin' = [callBin EXCEPT ![c] = r.bin]
            /\ pc' = [pc EXCEPT ![c] = "list"]
            /\ UNCHANGED <<toolCache, cacheWrites, callTools, callIdx>>
    /\ UNCHANGED <<envVars, probeRuns, listRuns, listFailed, callExt, callResult,
                   callsStarted, notReg>>

\* ensure<Kind>, the format-listing command has ended (well or not): the
\* descriptor is written into the memo and returned
EnsureList(c) ==
    LET k == KindOrder[callIdx[c]] IN
    /\ pc[c] = "list"
    /\ \E ok \in BOOLEAN :
        LET formats == loadFormats(k, ok) IN
        /\ listRuns' = [listRuns EXCEPT ![k] = @ + 1]
        /\ listFailed' = [listFailed EXCEPT ![k] = @ \/ ~ok]
        /\ callProcs' = [callProcs EXCEPT ![c] = @ + listingProcs(k)]
        /\ IF formats.threw
           THEN /\ pc' = [pc EXCEPT ![c] = "threw"]
                /\ UNCHANGED <<toolCache, cacheWrites, callTools, callIdx>>
           ELSE /\ toolCache' = [toolCache EXCEPT ![k] = ToolFormats(callBin[c], formats)]
                /\ cacheWrites' = [cacheWrites EXCEPT ![k] = @ + 1]
                /\ callTools' = [callTools EXCEPT ![c][k] = ToolFormats(callBin[c], formats)]
                /\ pc' = [pc EXCEPT ![c] = nextPc(callIdx[c])]
                /\ callIdx' = [callIdx EXCEPT ![c] = nextIdx(callIdx[c])]
    /\ UNCHANGED <<envVars, probeRuns, callExt, callBin, callResult, callsStarted, notReg>>

\* detectConverter, after the four awaits: the if-chain and the return
DetectReturn(c) ==
    /\ pc[c] = "decide"
    /\ callResult' = [callResult EXCEPT ![c] =
            selectConverter(callExt[c], callTools[c]["magick"], callTools[c]["ffmpeg"],
                            callTools[c]["pandoc"], callTools[c]["libreoffice"])]
    /\ pc' = [pc EXCEPT ![c] = "done"]
    /\ UNCHANGED <<envVars, cacheVars, callExt, callIdx, callBin, callTools, callProcs,
                   callsStarted, notReg>>

\* the user installs a tool the memo already records as absent
InstallTool(k) ==
    /\ env[k] = NotInstalled
    /\ toolCache[k].state = "null"
    /\ env' = [env EXCEPT ![k] = OnPath({candidates(k, isWindows)[1]})]
    /\ UNCHANGED <<isWindows, cacheVars, callVars, notReg>>

DetectNext ==
    \/ \E c \in SeqSlots, ext \in DetectExts : StartDetectSeq(c, ext)
    \/ \E c \in SeqSlots : EnsureEnter(c)
    \/ \E c \in SeqSlots : EnsureResolve(c)
    \/ \E c \in SeqSlots : EnsureList(c)
    \/ \E c \in SeqSlots : DetectReturn(c)

InstallNext ==
    \/ DetectNext
    \/ \E k \in Kinds : InstallTool(k)

\* the machine and the extensions of the overlapping lookups: the image and the
\* office tool are on the search path, the media and the markup tool are missing
OverlapEnvChoices(kind) ==
    CASE kind = "magick" -> {OnPath({"magick"})}
      [] kind = "libreoffice" -> {OnPath({"soffice"})}
      [] OTHER -> {NotInstalled}

OverlapExts == {S1("docx")}

RegOverlapInit ==
    /\ isWindows = FALSE
    /\ env \in [Kinds -> UNION {OverlapEnvChoices(k) : k \in Kinds}]
    /\ \A k \in Kinds : env[k] \in OverlapEnvChoices(k)
    /\ toolCache = [k \in Kinds |-> Undefined]
    /\ probeRuns = [k \in Kinds |-> 0]
    /\ listRuns = [k \in Kinds |-> 0]
    /\ listFailed = [k \in Kinds |-> FALSE]
    /\ cacheWrites = [k \in Kinds |-> 0]
    /\ pc = [c \in Slots |-> "idle"]
    /\ callExt = [c \in Slots |-> <<>>]
    /\ callIdx = [c \in Slots |-> 1]
    /\ callBin = [c \in Slots |-> "null"]
    /\ callTools = [c \in Slots |-> [k \in Kinds |-> Undefined]]
    /\ callResult = [c \in Slots |-> NoDecision]
    /\ callProcs = [c \in Slots |-> 0]
    /\ callsStarted = 0

\* a call starts while the calls before it may be suspended at an await; the
\* n-th call runs in slot n
StartDetectOverlap(c, ext) ==
    /\ c = callsStarted + 1
    /\ StartDetect(c, ext)

\* detectConverter calls that may start while another is suspended at an await
OverlapNext ==
    \/ \E c \in Slots, ext \in OverlapExts : StartDetectOverlap(c, ext)
    \/ \E c \in Slots : EnsureEnter(c)
    \/ \E c \in Slots : EnsureResolve(c)
    \/ \E c \in Slots : EnsureList(c)
    \/ \E c \in Slots : DetectReturn(c)

\* ------------------------------------------------------------ paths
\* A path is the sequence of its segments; a segment is a string.
Last(q) == q[Len(q)]

Front(q) == SubSeq(q, 1, Len(q) - 1)

\* the position of the last "." of a file name, 0 if it has none
lastDot(name) ==
    IF \E i \in DOMAIN name : name[i] = "."
    THEN CHOOSE i \in DOMAIN name : name[i] = "." /\ \A j \in (i + 1)..Len(name) : name[j] # "."
    ELSE 0

\* path.extname: from the last dot of the last segment on; "" when there is no
\* dot, when the name starts with its only dot, and for ".."
extname(p) ==
    LET name == Last(p)
        d == lastDot(name)
    IN  IF d <= 1 \/ name = <<".", ".">> THEN <<>> ELSE SubSeq(name, d, Len(name))

\* path.basename(p, ext): the last segment without the suffix ext
basename(p, ext) ==
    LET name == Last(p) IN
    IF ext # <<>> /\ Len(name) > Len(ext)
       /\ SubSeq(name, Len(name) - Len(ext) + 1, Len(name)) = ext
    THEN SubSeq(name, 1, Len(name) - Len(ext))
    ELSE name

\* path.dirname
dirname(p) == Front(p)

getFileExt(filePath) == normalizeExt(extname(filePath))

\* a string cut at its "/" chunks
RECURSIVE splitSlash(_, _)
splitSlash(str, cur) ==
    IF str = <<>> THEN <<cur>>
    ELSE IF Head(str) = "/" THEN <<cur>> \o splitSlash(Tail(str), <<>>)
    ELSE splitSlash(Tail(str), Append(cur, Head(str)))

\* path.normalize on an absolute path: "" and "." segments go, ".." takes the
\* segment before it with it
RECURSIVE normalizeSegments(_, _)
normalizeSegments(done, todo) ==
    IF todo = <<>> THEN done
    ELSE IF Head(todo) = <<>> \/ Head(todo) = <<".">> THEN normalizeSegments(done, Tail(todo))
    ELSE IF Head(todo) = <<".", ".">>
         THEN normalizeSegments(IF done = <<>> THEN done ELSE Front(done), Tail(todo))
    ELSE normalizeSegments(Append(done, Head(todo)), Tail(todo))

\* path.join(dir, name): joined with "/" and normalized
pathJoin(dir, name) == normalizeSegments(<<>>, dir \o splitSlash(name, <<>>))

\* os.tmpdir()
tmpdir == <<S1("tmp")>>

\* crypto.randomUUID(): the n-th call's value; version 4 UUIDs are taken never to repeat
randomUUID(n) == "uuid" \o ToString(n)

\* outputDir null (or ""): no directory chosen
NoDir == <<>>

\* buildOutputPath; unique is the value randomUUID() returns if it is called
buildOutputPath(inputPath, outputExt, outputDir, destination, unique) ==
    LET baseName == basename(inputPath, extname(inputPath))
        safeExt == normalizeExt(outputExt)
    IN  IF destination = "clipboard"
        THEN pathJoin(tmpdir, baseName \o <<"-converted-", unique, ".">> \o safeExt)
        ELSE pathJoin(IF outputDir # NoDir THEN outputDir ELSE dirname(inputPath),
                      baseName \o <<".">> \o safeExt)

Destinations == {"clipboard", "save", "both"}

\* the files the user converts
InputPaths ==
    {<<S1("home"), <<"photo", ".", "HEIC">>>>,
     <<S1("home"), <<"clip", ".", "mov">>>>,
     <<S1("home"), <<"report", ".", "docx">>>>}

\* what reaches buildOutputPath as outputExt: a format of the tool's list, or,
\* when that list is empty, the text typed into the Target Format field,
\* after normalizeExt
OutputExts == {S1("png"), <<"/", ".", ".", "/", "x">>}

OutputDirs == {NoDir, <<S1("out")>>}

PathIdle ==
    /\ uuidCount = 0
    /\ built = <<>>

\* buildOutputPath(inputPath, outputExt, outputDir, destination) is called
BuildOutputPath(inputPath, outputExt, outputDir, destination) ==
    /\ Len(built) < MaxBuilds
    /\ uuidCount' = IF destination = "clipboard" THEN uuidCount + 1 ELSE uuidCount
    /\ built' = Append(built,
            [inputPath |-> inputPath, outputExt |-> outputExt, outputDir |-> outputDir,
             destination |-> destination, unique |-> randomUUID(uuidCount + 1),
             path |-> buildOutputPath(inputPath, outputExt, outputDir, destination,
                                      randomUUID(uuidCount + 1))])
    /\ UNCHANGED notPath

PathNext ==
    \E inputPath \in InputPaths, outputExt \in OutputExts, outputDir \in OutputDirs,
       destination \in Destinations :
        BuildOutputPath(inputPath, outputExt, outputDir, destination)

\* ------------------------------------------------------------ convertWithTool
\* the rejection of execFileAsync: its message and the output captured so far;
\* a process that could not be launched has captured nothing
NoFailure == [message |-> "", stdout |-> "", stderr |-> ""]

ExitFailure(stdout, stderr) ==
    [message |-> "Command failed", stdout |-> stdout, stderr |-> stderr]

LaunchFailure == [message |-> "spawn ENOENT", stdout |-> "", stderr |-> ""]

ProcessFailures ==
    {ExitFailure(o, e) : o \in {"", "out"}, e \in {"", "err"}} \cup {LaunchFailure}

\* parts.filter(Boolean)
RECURSIVE filterBoolean(_)
filterBoolean(parts) ==
    IF parts = <<>> THEN <<>>
    ELSE IF Head(parts) = "" THEN filterBoolean(Tail(parts))
    ELSE <<Head(parts)>> \o filterBoolean(Tail(parts))

\* parts.join("\n"): the parts with a line break between each two
RECURSIVE joinNewline(_)
joinNewline(parts) ==
    IF parts = <<>> THEN <<>>
    ELSE IF Len(parts) = 1 THEN parts
    ELSE <<Head(parts), "\n">> \o joinNewline(Tail(parts))

\* a variant that joins the three parts as they are
errorDetails_unfiltered(err) == joinNewline(<<err.message, err.stdout, err.stderr>>)

\* runCommand, catch: [err.message, err.stdout, err.stderr].filter(Boolean).join("\n")
errorDetails(err) == joinNewline(filterBoolean(<<err.message, err.stdout, err.stderr>>))

\* runCommand, catch: throw new Error(details || "Conversion failed")
runCommandError(err) ==
    IF errorDetails(err) # <<>> THEN errorDetails(err) ELSE <<"Conversion failed">>

NoOpts ==
    [inputPath |-> <<>>, outputPath |-> <<>>, outputExt |-> <<>>, overwrite |-> FALSE,
     converter |-> "magick", bin |-> ""]

ConvIdle ==
    /\ fs = {}
    /\ convPc = "idle"
    /\ convOpts = NoOpts
    /\ convExisted = FALSE
    /\ convProcs = 0
    /\ convOutcome = "none"
    /\ convError = "none"
    /\ convResult = <<>>
    /\ convCalls = 0
    /\ convFailure = NoFailure
    /\ convMessage = <<>>

\* the files a conversion to "save" or "both" may find in its way
SavedBefore ==
    {<<S1("home"), <<"photo", ".", "png">>>>, <<S1("out"), <<"clip", ".", "png">>>>}

ConvInit ==
    /\ fs \in SUBSET SavedBefore
    /\ convPc = "idle"
    /\ convOpts = NoOpts
    /\ convExisted = FALSE
    /\ convProcs = 0
    /\ convOutcome = "none"
    /\ convError = "none"
    /\ convResult = <<>>
    /\ convCalls = 0
    /\ convFailure = NoFailure
    /\ convMessage = <<>>

\* the submit handlers: outputPath = buildOutputPath(...), then
\* convertWithTool({inputPath, outputPath, outputExt, overwrite, converter, tool})
ConvertCall(inputPath, outputExt, outputDir, destination, overwrite, converter) ==
    /\ convPc \in {"idle", "done"}
    /\ convCalls < MaxConverts
    /\ convCalls' = convCalls + 1
    /\ uuidCount' = IF destination = "clipboard" THEN uuidCount + 1 ELSE uuidCount
    /\ convOpts' =
            [inputPath |-> inputPath,
             outputPath |-> buildOutputPath(inputPath, outputExt, outputDir, destination,
                                            randomUUID(uuidCount + 1)),
             outputExt |-> outputExt, overwrite |-> overwrite, converter |-> converter,
             bin |-> candidates(converter, FALSE)[1]]
    /\ convPc' = IF overwrite THEN "spawn" ELSE "access"
    /\ convExisted' = FALSE
    /\ convProcs' = 0
    /\ convOutcome' = "none"
    /\ convError' = "none"
    /\ convResult' = <<>>
    /\ convFailure' = NoFailure
    /\ convMessage' = <<>>
    /\ UNCHANGED <<fs, built, notPathConv>>

\* try { await access(outputPath); throw new Error("Output file already exists...") }
\* catch { }: the catch block receives the rejection of access for a missing file
\* and the Error thrown for an existing one alike
overwriteGuard(exists) == "proceed"

\* convertWithTool, if (!overwrite): access(outputPath) has settled
ConvertAccess ==
    /\ convPc = "access"
    /\ convExisted' = (convOpts.outputPath \in fs)
    /\ IF overwriteGuard(convOpts.outputPath \in fs) = "throw"
       THEN /\ convPc' = "done"
            /\ convOutcome' = "threw"
            /\ convError' = "exists"
       ELSE /\ convPc' = "spawn"
            /\ UNCHANGED <<convOutcome, convError>>
    /\ convMessage' = IF overwriteGuard(convOpts.outputPath \in fs) = "throw"
                       THEN <<"Output file already exists">> ELSE convMessage
    /\ UNCHANGED <<fs, convOpts, convProcs, convResult, convCalls, convFailure, pathVars,
                   notPathConv>>

\* where the tool leaves its output: magick, ffmpeg and pandoc at the path they
\* are given; LibreOffice in --outdir, named after the input file
writtenPath(opts) ==
    IF opts.converter = "libreoffice"
    THEN pathJoin(dirname(opts.outputPath),
                  basename(opts.inputPath, extname(opts.inputPath)) \o <<".">> \o opts.outputExt)
    ELSE opts.outputPath

\* ffmpeg is passed -n when overwrite is false, and then refuses an existing output
toolMaySucceed(opts, files) ==
    ~(opts.converter = "ffmpeg" /\ ~opts.overwrite /\ opts.outputPath \in files)

\* convertWithTool, the switch: runCommand(tool.bin, args) has settled; the
\* process has exited with 0 (ok) or not
ConvertSpawn ==
    /\ convPc = "spawn"
    /\ convProcs' = convProcs + 1
    /\ convPc' = "done"
    /\ \E ok \in BOOLEAN, err \in ProcessFailures :
        /\ ok => toolMaySucceed(convOpts, fs)
        /\ ok => err = ExitFailure("", "")
        /\ IF ok
           THEN /\ fs' = fs \cup {writtenPath(convOpts)}
                /\ convOutcome' = "returned"
                /\ convResult' = convOpts.outputPath
                /\ UNCHANGED <<convError, convFailure, convMessage>>
           ELSE /\ convOutcome' = "threw"
                /\ convError' = "process"
                /\ convFailure' = err
                /\ convMessage' = runCommandError(err)
                /\ UNCHANGED <<fs, convResult>>
    /\ UNCHANGED <<convOpts, convExisted, convCalls, pathVars, notPathConv>>

ConvertNext ==
    \/ \E inputPath \in InputPaths, outputExt \in OutputExts, outputDir \in OutputDirs,
          destination \in Destinations, overwrite \in BOOLEAN, converter \in Kinds :
            ConvertCall(inputPath, outputExt, outputDir, destination, overwrite, converter)
    \/ ConvertAccess
    \/ ConvertSpawn

\* ------------------------------------------------------------ readClipboardFile
\* Clipboard texts and the paths made from them are strings: chunk sequences
\* with "/" chunks between the names.
NoText == <<>>

PhotoPath == <<"/", "home", "/", "photo", ".", "HEIC">>

\* file URLs: of a local file, of a file on another host, with a malformed
\* percent escape, and with a drive letter
LocalFileUrl == <<"file://">> \o PhotoPath

RemoteFileUrl == <<"file://", "host", "/", "share", "/", "photo", ".", "HEIC">>

MalformedFileUrl == <<"file://", "/", "%zz">>

DriveFileUrl == <<"file://", "/", "C:", "/", "photo", ".", "HEIC">>

\* what Clipboard.read() resolves to: content.file, content.text, and whether
\* the clipboard holds a raster image
ClipboardContent(file, text, image) == [file |-> file, text |-> text, image |-> image]

ClipboardTexts ==
    {<<" ">>, PhotoPath, <<" ">> \o PhotoPath \o <<" ">>, <<"hello">>,
     <<" ">> \o LocalFileUrl, RemoteFileUrl, MalformedFileUrl, DriveFileUrl}

ClipboardContents ==
    {ClipboardContent(PhotoPath, NoText, FALSE)}
        \cup {ClipboardContent(NoText, text, FALSE) : text \in ClipboardTexts}
        \cup {ClipboardContent(NoText, NoText, image) : image \in BOOLEAN}

\* the files access() finds
ExistingFiles(win) ==
    IF win THEN {<<"C:", "\\", "photo", ".", "HEIC">>} ELSE {PhotoPath}

\* the temporary file the image helper writes
ClipboardImagePath == <<"/", "tmp", "/", "raycast-clipboard-", "uuid", ".", "png">>

toBackslashes(s) == [i \in DOMAIN s |-> IF s[i] = "/" THEN "\\" ELSE s[i]]

UrlThrew == [threw |-> TRUE, path |-> <<>>]

UrlPath(p) == [threw |-> FALSE, path |-> p]

\* url.fileURLToPath: a malformed percent escape throws; a host throws except
\* on Windows, where it gives a UNC path; on Windows a path without a drive
\* letter throws
fileURLToPath(url, win) ==
    LET rest == Tail(url)
        hasHost == rest # <<>> /\ Head(rest) # "/"
    IN  IF "%zz" \in Range(rest) THEN UrlThrew
        ELSE IF win
        THEN IF hasHost THEN UrlPath(<<"\\\\">> \o toBackslashes(rest))
             ELSE IF Len(rest) >= 2 /\ rest[2] = "C:" THEN UrlPath(toBackslashes(Tail(rest)))
             ELSE UrlThrew
        ELSE IF hasHost THEN UrlThrew ELSE UrlPath(rest)

\* trimmed.startsWith("file://") ? fileURLToPath(trimmed) : trimmed
pathCandidate(trimmed, win) ==
    IF Head(trimmed) = "file://" THEN fileURLToPath(trimmed, win) ELSE UrlPath(trimmed)

ClipIdle ==
    /\ clipboard = ClipboardContent(NoText, NoText, FALSE)
    /\ readPc = "idle"
    /\ readCandidate = <<>>
    /\ readOutcome = "none"
    /\ readResult = <<>>
    /\ readCalls = 0
    /\ clipInputPath = <<>>
    /\ clipLoading = TRUE

ClipInit ==
    /\ clipboard \in ClipboardContents
    /\ readPc = "idle"
    /\ readCandidate = <<>>
    /\ readOutcome = "none"
    /\ readResult = <<>>
    /\ readCalls = 0
    /\ clipInputPath = <<>>
    /\ clipLoading = TRUE

\* the user copies something else
CopyToClipboard(content) ==
    /\ readPc \in {"idle", "done"}
    /\ clipboard # content
    /\ clipboard' = content
    /\ UNCHANGED <<readPc, readCandidate, readOutcome, readResult, readCalls,
                   clipInputPath, clipLoading, notClip>>

\* loadClipboard (on mount, or Reload Clipboard): setLoading(true), then
\* readClipboardFile() awaits Clipboard.read()
LoadClipboard ==
    /\ readPc \in {"idle", "done"}
    /\ readCalls < MaxReads
    /\ readCalls' = readCalls + 1
    /\ readPc' = "read"
    /\ readCandidate' = <<>>
    /\ readOutcome' = "none"
    /\ readResult' = <<>>
    /\ clipLoading' = TRUE
    /\ UNCHANGED <<clipboard, clipInputPath, notClip>>

\* readClipboardFile returns file (<<>> for null) to loadClipboard:
\* setInputPath(file); setLoading(false)
ReadReturns(file) ==
    /\ readPc' = "done"
    /\ readOutcome' = "returned"
    /\ readResult' = file
    /\ clipInputPath' = file
    /\ clipLoading' = FALSE

\* readClipboardFile throws: the await in loadClipboard rejects and the two
\* setters after it do not run
ReadThrows ==
    /\ readPc' = "done"
    /\ readOutcome' = "threw"
    /\ readResult' = <<>>
    /\ UNCHANGED <<clipInputPath, clipLoading>>

\* readClipboardFile, Clipboard.read() has resolved: a file reference is
\* returned; a text is trimmed and made a path candidate; else the image is read
ReadContent ==
    /\ readPc = "read"
    /\ IF clipboard.file # <<>>
       THEN ReadReturns(clipboard.file) /\ UNCHANGED readCandidate
       ELSE IF clipboard.text # <<>>
       THEN IF trim(clipboard.text) = <<>>
            THEN ReadReturns(<<>>) /\ UNCHANGED readCandidate
            ELSE IF pathCandidate(trim(clipboard.text), isWindows).threw
            THEN ReadThrows /\ UNCHANGED readCandidate
            ELSE /\ readCandidate' = pathCandidate(trim(clipboard.text), isWindows).path
                 /\ readPc' = "access"
                 /\ UNCHANGED <<readOutcome, readResult, clipInputPath, clipLoading>>
       ELSE /\ readPc' = "image"
            /\ UNCHANGED <<readCandidate, readOutcome, readResult, clipInputPath, clipLoading>>
    /\ UNCHANGED <<clipboard, readCalls, notClip>>

\* try { await access(pathCandidate); return pathCandidate } catch { return null }
ReadAccess ==
    /\ readPc = "access"
    /\ ReadReturns(IF readCandidate \in ExistingFiles(isWindows) THEN readCandidate ELSE <<>>)
    /\ UNCHANGED <<clipboard, readCandidate, readCalls, notClip>>

\* readClipboardImageToTemp: the helper saves the image, or null (no image, no
\* helper, helper failed)
ReadImage ==
    /\ readPc = "image"
    /\ \E saved \in BOOLEAN :
        /\ saved => clipboard.image
        /\ ReadReturns(IF saved THEN ClipboardImagePath ELSE <<>>)
    /\ UNCHANGED <<clipboard, readCandidate, readCalls, notClip>>

ClipboardNext ==
    \/ \E content \in ClipboardContents : CopyToClipboard(content)
    \/ LoadClipboard
    \/ ReadContent
    \/ ReadAccess
    \/ ReadImage

\* ------------------------------------------------------------ the commands' components
\* inputPath null: no file chosen
NoFile == <<>>

\* ensure<Kind>() run from start to end on an unset memo entry
ensured(kind, e, win, ok) ==
    LET r == resolveBin(kind, e, win) IN
    IF r.bin = "null" THEN Null
    ELSE IF kind = "libreoffice" THEN ToolFormats(r.bin, LibreOfficeFormats)
    ELSE ToolFormats(r.bin, loadFormats(kind, ok))

\* the memo table after the four awaits of a detectConverter call
memoAfter(cache, e, win, ok) ==
    [k \in Kinds |-> IF memoHit(cache[k]) THEN cache[k] ELSE ensured(k, e[k], win, ok)]

\* what detectConverter(ext) returns over a memo table
detected(ext, cache) ==
    selectConverter(ext, cache["magick"], cache["ffmpeg"], cache["pandoc"],
                    cache["libreoffice"])

\* a detectConverter call of a component settles: the memo entries that were
\* unset have been probed and written; ok says whether the format listings ran
DetectSettles(ok) ==
    LET cache == memoAfter(toolCache, env, isWindows, ok)
        fresh == {k \in Kinds : ~memoHit(toolCache[k])}
        listed == {k \in fresh : cache[k].state = "tool" /\ k # "libreoffice"}
    IN  /\ toolCache' = cache
        /\ probeRuns' = [k \in Kinds |-> IF k \in fresh THEN probeRuns[k] + 1 ELSE probeRuns[k]]
        /\ cacheWrites' = [k \in Kinds |-> IF k \in fresh THEN cacheWrites[k] + 1 ELSE cacheWrites[k]]
        /\ listRuns' = [k \in Kinds |-> IF k \in listed THEN listRuns[k] + 1 ELSE listRuns[k]]
        /\ listFailed' = [k \in Kinds |-> listFailed[k] \/ (k \in listed /\ ~ok)]

\* one run of a converter-lookup effect: the input it looks up, its
\* `cancelled` flag, whether its detectConverter call has settled, and whether
\* it went on to the setters
Lookup(input) == [input |-> input, cancelled |-> FALSE, settled |-> FALSE, wrote |-> FALSE]

\* the effect's cleanup: () => { cancelled = true }, run on the latest run
cleanup(runs) ==
    [i \in DOMAIN runs |-> IF i = Len(runs) THEN [runs[i] EXCEPT !.cancelled = TRUE] ELSE runs[i]]

\* a variant of the effect that ignores its flag
discards_never(run) == FALSE

\* if (cancelled) return
discards(run) == run.cancelled

NoForm ==
    [open |-> FALSE, inputPath |-> NoFile, decision |-> NoDecision, outputFormats |-> <<>>,
     selectedOutput |-> <<>>]

NoSubmit ==
    [handler |-> "none", pc |-> "idle", inputPath |-> NoFile, decision |-> NoDecision,
     requested |-> <<>>, outputExt |-> <<>>, destination |-> "clipboard",
     outputDir |-> NoDir, openAfter |-> FALSE, outcome |-> "none", called |-> FALSE,
     copied |-> FALSE, opened |-> FALSE, onConverted |-> FALSE, popped |-> FALSE,
     returned |-> FALSE, todo |-> <<>>, effects |-> <<>>]

\* what is typed into the Target Format field when it is a text field
UITexts == {<<" ">>, <<".", "PNG">>, S1("xyz")}

\* the formats picked in the Target Format field when it is a dropdown
FormatPicks == {S1("gif"), S1("png")}

\* the files the user picks or copies
UIFiles ==
    {<<S1("home"), <<"photo", ".", "HEIC">>>>,
     <<S1("home"), <<"clip", ".", "mov">>>>}

\* the machines the commands run on: no tool installed, or the image and the
\* media tool on the search path
UIMachines ==
    {[k \in Kinds |-> NotInstalled],
     [k \in Kinds |-> IF k \in {"magick", "ffmpeg"}
                      THEN OnPath({candidates(k, FALSE)[1]})
                      ELSE NotInstalled]}

UiIdle ==
    /\ command = "none"
    /\ uiInputPath = NoFile
    /\ uiDecision = NoDecision
    /\ uiOutputFormat = <<>>
    /\ uiLoading = FALSE
    /\ lookups = <<>>
    /\ form = NoForm
    /\ submit = NoSubmit
    /\ submits = 0
    /\ convertCalls = <<>>

\* Convert File: Command is mounted with no file; its effect has run on a null
\* inputPath.  Convert Clipboard: PreviewScreen is mounted on the file the
\* clipboard held and its effect has started the lookup
UiInit ==
    /\ command \in {"convert-file", "convert-clipboard"}
    /\ uiInputPath \in UIFiles \cup {NoFile}
    /\ (command = "convert-file") <=> (uiInputPath = NoFile)
    /\ uiDecision = NoDecision
    /\ uiOutputFormat = <<>>
    /\ uiLoading = (command = "convert-clipboard")
    /\ lookups = IF command = "convert-clipboard" THEN <<Lookup(uiInputPath)>> ELSE <<>>
    /\ form = NoForm
    /\ submit = NoSubmit
    /\ submits = 0
    /\ convertCalls = <<>>

RegUiInit ==
    /\ isWindows = FALSE
    /\ env \in UIMachines
    /\ toolCache = [k \in Kinds |-> Undefined]
    /\ probeRuns = [k \in Kinds |-> 0]
    /\ listRuns = [k \in Kinds |-> 0]
    /\ listFailed = [k \in Kinds |-> FALSE]
    /\ cacheWrites = [k \in Kinds |-> 0]
    /\ pc = [c \in Slots |-> "idle"]
    /\ callExt = [c \in Slots |-> <<>>]
    /\ callIdx = [c \in Slots |-> 1]
    /\ callBin = [c \in Slots |-> "null"]
    /\ callTools = [c \in Slots |-> [k \in Kinds |-> Undefined]]
    /\ callResult = [c \in Slots |-> NoDecision]
    /\ callProcs = [c \in Slots |-> 0]
    /\ callsStarted = 0

\* Command, Form.FilePicker onChange: setInputPath(next); the effect of
\* [inputPath] is cleaned up and runs again: a null inputPath resets decision
\* and outputFormat, a file starts a lookup
PickFile(next) ==
    /\ command = "convert-file"
    /\ next # uiInputPath
    /\ submit.pc \in {"idle", "done"}
    /\ next # NoFile => Len(lookups) < MaxLookups
    /\ uiInputPath' = next
    /\ IF next = NoFile
       THEN /\ uiDecision' = NoDecision
            /\ uiOutputFormat' = <<>>
            /\ lookups' = cleanup(lookups)
            /\ UNCHANGED uiLoading
       ELSE /\ uiLoading' = TRUE
            /\ lookups' = Append(cleanup(lookups), Lookup(next))
            /\ UNCHANGED <<uiDecision, uiOutputFormat>>
    /\ UNCHANGED <<command, form, submit, submits, convertCalls, cacheVars, pathVars, fs, notUi>>

\* Command, effect load: detectConverter has resolved; unless the run was
\* cancelled: setDecision(resolved); setOutputFormat(resolved?.defaultOutput ?? "");
\* setLoading(false)
CommandLookupSettles(i) ==
    /\ command = "convert-file"
    /\ i \in DOMAIN lookups
    /\ ~lookups[i].settled
    /\ \E ok \in BOOLEAN :
        LET resolved == detected(getFileExt(lookups[i].input),
                                 memoAfter(toolCache, env, isWindows, ok))
        IN  /\ DetectSettles(ok)
            /\ IF discards(lookups[i])
               THEN /\ lookups' = [lookups EXCEPT ![i].settled = TRUE]
                    /\ UNCHANGED <<uiDecision, uiOutputFormat, uiLoading>>
               ELSE /\ lookups' = [lookups EXCEPT ![i].settled = TRUE, ![i].wrote = TRUE]
                    /\ uiDecision' = resolved
                    /\ uiOutputFormat' = resolved.defaultOutput
                    /\ uiLoading' = FALSE
    /\ UNCHANGED <<command, uiInputPath, form, submit, submits, convertCalls, pathVars, fs,
                   notUi>>

\* Command, Target Format onChange: setOutputFormat; the field is a dropdown of
\* the tool's output formats, or a text field when there are none
SetOutputFormat(text) ==
    /\ command = "convert-file"
    /\ submit.pc \in {"idle", "done"}
    /\ text # uiOutputFormat
    /\ IF uiDecision.tool.output # <<>>
       THEN text \in Range(uiDecision.tool.output)
       ELSE text \in UITexts
    /\ uiOutputFormat' = text
    /\ UNCHANGED <<command, uiInputPath, uiDecision, uiLoading, lookups, form, submit,
                   submits, convertCalls, cacheVars, pathVars, fs, notUi>>

\* Convert Clipboard, Reload Clipboard: PreviewScreen gets another inputPath
\* (null unmounts it); when ext changes its effect is cleaned up and runs again
ReloadClipboard(next) ==
    /\ command = "convert-clipboard"
    /\ next # uiInputPath
    /\ ~form.open
    /\ next # NoFile => Len(lookups) < MaxLookups
    /\ uiInputPath' = next
    /\ IF next = NoFile
       THEN /\ uiDecision' = NoDecision
            /\ uiLoading' = FALSE
            /\ lookups' = cleanup(lookups)
       ELSE IF uiInputPath = NoFile
       THEN /\ uiDecision' = NoDecision
            /\ uiLoading' = TRUE
            /\ lookups' = Append(lookups, Lookup(next))
       ELSE IF getFileExt(next) # getFileExt(uiInputPath)
       THEN /\ uiLoading' = TRUE
            /\ lookups' = Append(cleanup(lookups), Lookup(next))
            /\ UNCHANGED uiDecision
       ELSE UNCHANGED <<uiDecision, uiLoading, lookups>>
    /\ UNCHANGED <<command, uiOutputFormat, form, submit, submits, convertCalls, cacheVars,
                   pathVars, fs, notUi>>

\* PreviewScreen, effect load: detectConverter has resolved; unless the run
\* was cancelled: setDecision(resolved); setLoading(false)
PreviewLookupSettles(i) ==
    /\ command = "convert-clipboard"
    /\ i \in DOMAIN lookups
    /\ ~lookups[i].settled
    /\ \E ok \in BOOLEAN :
        LET resolved == detected(getFileExt(lookups[i].input),
                                 memoAfter(toolCache, env, isWindows, ok))
        IN  /\ DetectSettles(ok)
            /\ IF discards(lookups[i])
               THEN /\ lookups' = [lookups EXCEPT ![i].settled = TRUE]
                    /\ UNCHANGED <<uiDecision, uiLoading>>
               ELSE /\ lookups' = [lookups EXCEPT ![i].settled = TRUE, ![i].wrote = TRUE]
                    /\ uiDecision' = resolved
                    /\ uiLoading' = FALSE
    /\ UNCHANGED <<command, uiInputPath, uiOutputFormat, form, submit, submits,
                   convertCalls, pathVars, fs, notUi>>

\* PreviewScreen, Action.Push "Convert" (offered when decision is set): the
\* ConvertForm gets inputPath, decision and decision.tool.output
PushForm ==
    /\ command = "convert-clipboard"
    /\ uiInputPath # NoFile
    /\ uiDecision # NoDecision
    /\ ~form.open
    /\ submits < MaxSubmits
    /\ form' = [open |-> TRUE, inputPath |-> uiInputPath, decision |-> uiDecision,
                outputFormats |-> uiDecision.tool.output,
                selectedOutput |-> uiDecision.defaultOutput]
    /\ UNCHANGED <<command, uiInputPath, uiDecision, uiOutputFormat, uiLoading, lookups,
                   submit, submits, convertCalls, cacheVars, pathVars, fs, notUi>>

\* ConvertForm, Target Format dropdown onChange: setSelectedOutput
SetSelectedOutput(format) ==
    /\ form.open
    /\ submit.pc \in {"idle", "done"}
    /\ format \in Range(form.outputFormats)
    /\ format # form.selectedOutput
    /\ form' = [form EXCEPT !.selectedOutput = format]
    /\ UNCHANGED <<command, uiInputPath, uiDecision, uiOutputFormat, uiLoading, lookups,
                   submit, submits, convertCalls, cacheVars, pathVars, fs, notUi>>

\* a || b
orElse(a, b) == IF a # <<>> THEN a ELSE b

\* a variant that rejects every extension that is not listed
unsupported_listedOnly(supportedOutputs, outputExt) == outputExt \notin Range(supportedOutputs)

\* supportedOutputs.length > 0 && !supportedOutputs.includes(outputExt)
unsupported(supportedOutputs, outputExt) ==
    Len(supportedOutputs) > 0 /\ outputExt \notin Range(supportedOutputs)

\* the arguments of convertWithTool, with the path buildOutputPath gave
ConvertArgs(s, outputExt, unique) ==
    [handler |-> s.handler, inputPath |-> s.inputPath,
     outputPath |-> buildOutputPath(s.inputPath, outputExt,
                                    IF s.destination = "clipboard" THEN NoDir ELSE s.outputDir,
                                    s.destination, unique),
     outputExt |-> outputExt, converter |-> s.decision.kind, tool |-> s.decision.tool]

\* handleSubmit from the resolved decision on: no converter, no target format
\* and an unsupported format end the submission with a failure toast; else
\* buildOutputPath and convertWithTool are called.  s is the submission with
\* its decision and requested format resolved
SubmitChecks(s) ==
    LET outputExt == normalizeExt(s.requested) IN
    IF s.decision = NoDecision
    THEN /\ submit' = [s EXCEPT !.pc = "done", !.outcome = "noConverter"]
         /\ UNCHANGED <<convertCalls, uuidCount>>
    ELSE IF outputExt = <<>>
    THEN /\ submit' = [s EXCEPT !.pc = "done", !.outcome = "noFormat"]
         /\ UNCHANGED <<convertCalls, uuidCount>>
    ELSE IF unsupported(s.decision.tool.output, outputExt)
    THEN /\ submit' = [s EXCEPT !.pc = "done", !.outcome = "unsupported", !.outputExt = outputExt]
         /\ UNCHANGED <<convertCalls, uuidCount>>
    ELSE /\ submit' = [s EXCEPT !.pc = "converting", !.outputExt = outputExt, !.called = TRUE]
         /\ convertCalls' = Append(convertCalls,
                                   ConvertArgs(s, outputExt, randomUUID(uuidCount + 1)))
         /\ uuidCount' = IF s.destination = "clipboard" THEN uuidCount + 1 ELSE uuidCount

\* !resolvedDecision || inputPath !== resolvedInput
needsLookup(resolvedDecision, inputPath, resolvedInput) ==
    resolvedDecision = NoDecision \/ inputPath # resolvedInput

\* Command.handleSubmit(values): the form's input and outputFormat fields are
\* bound to the inputPath and outputFormat state
CommandSubmit(destination, outputDir, openAfter) ==
    LET resolvedInput == uiInputPath
        s == [NoSubmit EXCEPT !.handler = "Command", !.inputPath = resolvedInput,
                              !.destination = destination, !.outputDir = outputDir,
                              !.openAfter = openAfter]
    IN
    /\ command = "convert-file"
    /\ submit.pc \in {"idle", "done"}
    /\ submits < MaxSubmits
    /\ submits' = submits + 1
    /\ IF resolvedInput = NoFile
       THEN /\ submit' = [s EXCEPT !.pc = "done", !.outcome = "selectFile"]
            /\ UNCHANGED <<convertCalls, uuidCount>>
       ELSE IF needsLookup(uiDecision, uiInputPath, resolvedInput)
       THEN /\ submit' = [s EXCEPT !.pc = "detect", !.requested = uiOutputFormat]
            /\ UNCHANGED <<convertCalls, uuidCount>>
       ELSE SubmitChecks([s EXCEPT !.decision = uiDecision,
                                   !.requested = orElse(uiOutputFormat,
                                                        uiDecision.defaultOutput)])
    /\ UNCHANGED <<command, uiInputPath, uiDecision, uiOutputFormat, uiLoading, lookups,
                   form, cacheVars, built, fs, notUi>>

\* Command.handleSubmit, detectConverter has resolved: setDecision(resolvedDecision);
\* setOutputFormat(resolvedDecision.defaultOutput) if outputFormat was empty;
\* then the checks; submit.requested is the outputFormat the handler closed over
CommandSubmitDetected ==
    /\ submit.handler = "Command"
    /\ submit.pc = "detect"
    /\ \E ok \in BOOLEAN :
        LET resolvedDecision == detected(getFileExt(submit.inputPath),
                                         memoAfter(toolCache, env, isWindows, ok))
        IN  /\ DetectSettles(ok)
            /\ uiDecision' = resolvedDecision
            /\ uiOutputFormat' =
                    IF resolvedDecision # NoDecision /\ submit.requested = <<>>
                    THEN resolvedDecision.defaultOutput
                    ELSE uiOutputFormat
            /\ SubmitChecks([submit EXCEPT !.decision = resolvedDecision,
                                           !.requested = orElse(submit.requested,
                                                                resolvedDecision.defaultOutput)])
    /\ UNCHANGED <<command, uiInputPath, uiLoading, lookups, form, submits, built, fs, notUi>>

\* ConvertForm.handleSubmit(values): values.outputFormat is the dropdown's
\* selectedOutput, or what was typed when the tool lists no formats
FormSubmit(typed, destination, outputDir, openAfter) ==
    LET valuesOutputFormat == IF form.outputFormats # <<>> THEN form.selectedOutput ELSE typed
        s == [NoSubmit EXCEPT !.handler = "ConvertForm", !.inputPath = form.inputPath,
                              !.decision = form.decision,
                              !.requested = orElse(valuesOutputFormat, form.selectedOutput),
                              !.destination = destination, !.outputDir = outputDir,
                              !.openAfter = openAfter]
    IN
    /\ command = "convert-clipboard"
    /\ form.open
    /\ submit.pc \in {"idle", "done"}
    /\ submits < MaxSubmits
    /\ submits' = submits + 1
    /\ IF normalizeExt(s.requested) = <<>>
       THEN /\ submit' = [s EXCEPT !.pc = "done", !.outcome = "noFormat"]
            /\ UNCHANGED <<convertCalls, uuidCount>>
       ELSE IF unsupported(form.outputFormats, normalizeExt(s.requested))
       THEN /\ submit' = [s EXCEPT !.pc = "done", !.outcome = "unsupported",
                                   !.outputExt = normalizeExt(s.requested)]
            /\ UNCHANGED <<convertCalls, uuidCount>>
       ELSE /\ submit' = [s EXCEPT !.pc = "converting", !.outputExt = normalizeExt(s.requested),
                                   !.called = TRUE]
            /\ convertCalls' = Append(convertCalls,
                    ConvertArgs(s, normalizeExt(s.requested), randomUUID(uuidCount + 1)))
            /\ uuidCount' = IF destination = "clipboard" THEN uuidCount + 1 ELSE uuidCount
    /\ UNCHANGED <<command, uiInputPath, uiDecision, uiOutputFormat, uiLoading, lookups,
                   form, cacheVars, built, fs, notUi>>

\* a path as the text the clipboard and the opener get
RECURSIVE pathText(_)
pathText(p) == IF p = <<>> THEN <<>> ELSE <<"/">> \o Head(p) \o pathText(Tail(p))

\* a variant of the handlers that opens the result before copying it
afterConvert_openFirst(handler, destination, openAfter) ==
    (IF destination \in {"save", "both"} /\ openAfter THEN <<"open">> ELSE <<>>)
        \o (IF destination \in {"clipboard", "both"} THEN <<"copy">> ELSE <<>>)
        \o (IF handler = "ConvertForm" THEN <<"onConverted", "popToRoot">> ELSE <<>>)

\* the calls of the try block after convertWithTool, in the order of the code:
\* Clipboard.copy for clipboard or both; open for save or both with openAfter
\* (ConvertForm: openAfter and not clipboard); ConvertForm then calls
\* onConverted and popToRoot
afterConvert(handler, destination, openAfter) ==
    (IF destination = "clipboard" \/ destination = "both" THEN <<"copy">> ELSE <<>>)
        \o (IF handler = "Command"
            THEN IF (destination = "save" \/ destination = "both") /\ openAfter
                 THEN <<"open">> ELSE <<>>
            ELSE IF openAfter /\ destination # "clipboard" THEN <<"open">> ELSE <<>>)
        \o (IF handler = "ConvertForm" THEN <<"onConverted", "popToRoot">> ELSE <<>>)

\* both handlers, convertWithTool has settled: when it returned the handler
\* goes on with the rest of the try block, when it threw the catch block turns
\* the toast into a failure and the handler ends
SubmitConverted ==
    /\ submit.pc = "converting"
    /\ \E ok \in BOOLEAN :
        IF ok
        THEN /\ submit' = [submit EXCEPT
                              !.pc = "after", !.returned = TRUE,
                              !.todo = afterConvert(submit.handler, submit.destination,
                                                    submit.openAfter)]
             /\ fs' = fs \cup {Last(convertCalls).outputPath}
        ELSE /\ submit' = [submit EXCEPT !.pc = "done", !.outcome = "failed"]
             /\ UNCHANGED fs
    /\ UNCHANGED <<command, uiInputPath, uiDecision, uiOutputFormat, uiLoading, lookups,
                   form, submits, convertCalls, cacheVars, pathVars, notUi>>

\* both handlers, the rest of the try block, one call at a time: Clipboard.copy,
\* open and popToRoot are awaited and may reject, which ends the handler in
\* the catch block; after the last call the handler ends
SubmitContinues ==
    /\ submit.pc = "after"
    /\ IF submit.todo = <<>>
       THEN /\ submit' = [submit EXCEPT !.pc = "done", !.outcome = "converted"]
            /\ UNCHANGED <<clipboard, form>>
       ELSE \E ok \in BOOLEAN :
            LET call == Head(submit.todo)
                resultPath == Last(convertCalls).outputPath
                s == [submit EXCEPT !.todo = Tail(submit.todo),
                                    !.effects = Append(submit.effects, call)]
            IN  IF ~ok
                THEN /\ call # "onConverted"
                     /\ submit' = [submit EXCEPT !.pc = "done", !.outcome = "failed",
                                                 !.todo = <<>>]
                     /\ UNCHANGED <<clipboard, form>>
                ELSE /\ submit' = [s EXCEPT !.copied = submit.copied \/ call = "copy",
                                            !.opened = submit.opened \/ call = "open",
                                            !.onConverted = submit.onConverted
                                                                \/ call = "onConverted",
                                            !.popped = submit.popped \/ call = "popToRoot"]
                     /\ clipboard' = IF call = "copy"
                                     THEN ClipboardContent(pathText(resultPath), NoText, FALSE)
                                     ELSE clipboard
                     /\ form' = IF call = "popToRoot" THEN NoForm ELSE form
    /\ UNCHANGED <<command, uiInputPath, uiDecision, uiOutputFormat, uiLoading, lookups,
                   submits, convertCalls, cacheVars, pathVars, fs>>
    /\ UNCHANGED <<normVars, pickVars, envVars, callVars, convPc, convOpts, convExisted,
                   convProcs, convOutcome, convError, convResult, convCalls, convFailure,
                   convMessage, readPc, readCandidate, readOutcome, readResult, readCalls,
                   clipInputPath, clipLoading>>

UiNext ==
    \/ \E next \in UIFiles \cup {NoFile} : PickFile(next)
    \/ \E i \in 1..MaxLookups : CommandLookupSettles(i)
    \/ \E text \in UITexts \cup FormatPicks : SetOutputFormat(text)
    \/ \E destination \in Destinations, openAfter \in BOOLEAN :
            CommandSubmit(destination, NoDir, openAfter)
    \/ CommandSubmitDetected
    \/ \E next \in UIFiles \cup {NoFile} : ReloadClipboard(next)
    \/ \E i \in 1..MaxLookups : PreviewLookupSettles(i)
    \/ PushForm
    \/ \E format \in FormatPicks : SetSelectedOutput(format)
    \/ \E typed \in UITexts, destination \in Destinations, openAfter \in BOOLEAN :
            FormSubmit(typed, destination, NoDir, openAfter)
    \/ SubmitConverted
    \/ SubmitContinues

\* ------------------------------------------------------------ specifications
Init == RegInit /\ NormIdle /\ PickIdle /\ PathIdle /\ ConvIdle /\ ClipIdle /\ UiIdle

\* detectConverter calls, one after the other, on a machine that does not change
Spec == Init /\ [][DetectNext]_vars

\* the same, on a machine where tools get installed while the program runs
SpecInstall == Init /\ [][InstallNext]_vars

InitNorm == NormInit /\ PickIdle /\ RegIdle /\ PathIdle /\ ConvIdle /\ ClipIdle /\ UiIdle

SpecNorm == InitNorm /\ [][NormNext]_vars

InitPick == PickInit /\ NormIdle /\ RegIdle /\ PathIdle /\ ConvIdle /\ ClipIdle /\ UiIdle

SpecPick == InitPick /\ [][PickNext]_vars

InitPath == PathIdle /\ NormIdle /\ PickIdle /\ RegIdle /\ ConvIdle /\ ClipIdle /\ UiIdle

\* buildOutputPath calls
SpecPath == InitPath /\ [][PathNext]_vars

InitConvert == ConvInit /\ PathIdle /\ NormIdle /\ PickIdle /\ RegIdle /\ ClipIdle /\ UiIdle

\* convertWithTool calls, one after the other
SpecConvert == InitConvert /\ [][ConvertNext]_vars

InitClipboard ==
    /\ ClipInit
    /\ isWindows \in BOOLEAN
    /\ env = [k \in Kinds |-> NotInstalled]
    /\ toolCache = [k \in Kinds |-> Undefined]
    /\ probeRuns = [k \in Kinds |-> 0]
    /\ listRuns = [k \in Kinds |-> 0]
    /\ listFailed = [k \in Kinds |-> FALSE]
    /\ cacheWrites = [k \in Kinds |-> 0]
    /\ pc = [c \in Slots |-> "idle"]
    /\ callExt = [c \in Slots |-> <<>>]
    /\ callIdx = [c \in Slots |-> 1]
    /\ callBin = [c \in Slots |-> "null"]
    /\ callTools = [c \in Slots |-> [k \in Kinds |-> Undefined]]
    /\ callResult = [c \in Slots |-> NoDecision]
    /\ callProcs = [c \in Slots |-> 0]
    /\ callsStarted = 0
    /\ NormIdle /\ PickIdle /\ PathIdle /\ ConvIdle /\ UiIdle

InitOverlap == RegOverlapInit /\ NormIdle /\ PickIdle /\ PathIdle /\ ConvIdle /\ ClipIdle /\ UiIdle

\* detectConverter calls started by lookups that overlap (a file is picked
\* while the lookup for the file before it is in flight)
SpecOverlap == InitOverlap /\ [][OverlapNext]_vars

InitUi == RegUiInit /\ UiInit /\ NormIdle /\ PickIdle /\ PathIdle /\ ConvIdle /\ ClipIdle

\* the components of the two commands: file selection, converter lookups, submits
SpecUi == InitUi /\ [][UiNext]_vars

\* the Convert Clipboard command: loadClipboard calls, one after the other
SpecClipboard == InitClipboard /\ [][ClipboardNext]_vars

\* ------------------------------------------------------------ properties
\* C1: for every converter kind, convertWithTool with overwrite = false and an
\* existing output path fails with the destination-exists error, and no
\* external process has been started
C1_DestinationExistsNoProcess ==
    (convPc = "done" /\ ~convOpts.overwrite /\ convExisted) =>
        /\ convOutcome = "threw"
        /\ convError = "exists"
        /\ convProcs = 0

Min(S) == CHOOSE x \in S : \A y \in S : x <= y

\* at least one resolution strategy of the kind succeeds on the machine as it is
Installed(k) ==
    \/ env[k].pref = "ok"
    \/ \E i \in DOMAIN candidates(k, isWindows) : candidates(k, isWindows)[i] \in env[k].onPath
    \/ k = "magick" /\ isWindows /\ env[k].winDir

\* the order in which the tools are asked whether they declare ext
DeclaredOrder(ext) ==
    IF ext \in imagePreferredExts
    THEN <<"magick", "ffmpeg", "pandoc", "libreoffice">>
    ELSE <<"ffmpeg", "pandoc", "libreoffice", "magick">>

Declaring(c) ==
    {i \in 1..4 : inputIncludes(callTools[c][DeclaredOrder(callExt[c])[i]], callExt[c])}

C3_AbsentIffNoTool ==
    \A c \in Slots : pc[c] = "done" =>
        (callResult[c].kind = "none" <=> \A k \in Kinds : ~Installed(k))

C3_Witness ==
    \E c \in Slots :
        /\ pc[c] = "done"
        /\ callExt[c] = <<>>
        /\ callResult[c].kind = "none"
        /\ \A k \in Kinds : toolCache[k] = Null

\* C4: a decision's defaultOutput is a member of the chosen tool's output list
\* when that list is not empty, and the first entry of the category's preference
\* list when it is
C4_DefaultOutputMember ==
    \A c \in Slots : pc[c] = "done" /\ callResult[c].kind # "none" =>
        LET d == callResult[c] IN
        /\ d.tool = toolCache[d.kind]
        /\ d.tool.output # <<>> => d.defaultOutput \in Range(d.tool.output)
        /\ d.tool.output = <<>> => d.defaultOutput = preferredByCategory(d.category)[1]

C4_Witness ==
    \E c \in Slots :
        /\ pc[c] = "done"
        /\ callResult[c].kind = "pandoc"
        /\ callResult[c].tool.output # <<>>
        /\ callResult[c].defaultOutput = S1("docx")

PreferenceHits(category, outputs) ==
    {i \in DOMAIN preferredByCategory(category) :
        preferredByCategory(category)[i] \in Range(outputs)}

\* C5: pickDefaultOutput returns the earliest entry of the category's preference
\* list that occurs in outputs, else outputs[0], else the first entry of the
\* preference list; the result is never the empty string; video with
\* {mp4, mov, mkv} gives mp4
C5_PickDefaultOutput ==
    pickStage = 1 =>
        LET preferred == preferredByCategory(pickCat)
            hits == PreferenceHits(pickCat, pickOutputs)
        IN  /\ hits # {} => pickResult = preferred[Min(hits)]
            /\ hits = {} /\ pickOutputs # <<>> => pickResult = pickOutputs[1]
            /\ pickOutputs = <<>> => pickResult = preferred[1]
            /\ pickResult # <<>>
            /\ (pickCat = "video" /\ Range(pickOutputs) = {S1("mp4"), S1("mov"), S1("mkv")})
                    => pickResult = S1("mp4")

C5_Witness ==
    /\ pickStage = 1
    /\ pickCat = "video"
    /\ pickOutputs = <<S1("mkv"), S1("mov"), S1("mp4")>>
    /\ pickResult = S1("mp4")

\* C6: normalizeExt(normalizeExt(x)) = normalizeExt(x) for every string x, and
\* normalizeExt(".PNG") = "png"
C6_NormalizeIdempotent ==
    /\ normStage = 2 => normTwice = normOnce
    /\ normalizeExt(<<".", "PNG">>) = <<"png">>

\* C7: with one call after the other, the resolution strategies and the
\* format-listing command of each tool kind run at most once, and every call
\* after the first starts no external process
C7_ProbedAtMostOnce ==
    /\ \A k \in Kinds : probeRuns[k] <= 1 /\ listRuns[k] <= 1
    /\ \A c \in Slots : callsStarted >= 2 => callProcs[c] = 0

C7_Witness ==
    \E c \in Slots :
        /\ callsStarted = 2
        /\ pc[c] = "done"
        /\ callTools[c]["magick"].state = "tool"
        /\ probeRuns["magick"] = 1
        /\ listRuns["magick"] = 1

CurrentKind(c) == KindOrder[callIdx[c]]

\* C8: when every resolution strategy of a kind fails the memo records null, not
\* undefined; from then on the entry stays null, the kind is never probed
\* again, and every later resolution returns null from the memo without
\* starting a process, also after the tool has been installed
C8_NegativeMemo ==
    [][\A k \in Kinds :
        /\ toolCache[k].state = "null" =>
                /\ toolCache'[k] = Null
                /\ probeRuns'[k] = probeRuns[k]
                /\ listRuns'[k] = listRuns[k]
        /\ \A c \in Slots :
            /\ (pc[c] = "resolve" /\ pc'[c] # "resolve" /\ CurrentKind(c) = k /\ ~Installed(k))
                    => toolCache'[k] = Null /\ toolCache'[k] # Undefined
            /\ (pc[c] = "ensure" /\ pc'[c] # pc[c] /\ CurrentKind(c) = k
                    /\ toolCache[k].state = "null")
                    => /\ callTools'[c][k] = Null
                       /\ callProcs'[c] = callProcs[c]
                       /\ pc'[c] \in {"ensure", "decide"}
      ]_vars

C8_Witness ==
    \E c \in Slots :
        /\ callsStarted = 2
        /\ pc[c] = "decide"
        /\ Installed("ffmpeg")
        /\ toolCache["ffmpeg"] = Null
        /\ callTools[c]["ffmpeg"] = Null
        /\ callProcs[c] = 0

\* the formats a kind's descriptor holds when its listing has succeeded
ListedFormats(k) == IF k = "libreoffice" THEN LibreOfficeFormats ELSE parseListing(k)

\* C9: a tool whose executable is found but whose format listing fails is
\* memoized as available with empty input and output lists; detectConverter
\* does not throw; the other kinds resolve as they would have; and the tool is
\* still chosen as catch-all when it is the first available tool and no tool
\* declares the extension
C9_ListingFailureIsEmpty ==
    /\ \A k \in Kinds : listFailed[k] =>
            /\ toolCache[k].state = "tool"
            /\ toolCache[k].input = <<>>
            /\ toolCache[k].output = <<>>
    /\ \A c \in Slots : pc[c] # "threw"
    /\ \A j \in Kinds : toolCache[j].state # "undefined" =>
            /\ toolCache[j].state = "tool" <=> Installed(j)
            /\ (toolCache[j].state = "tool" /\ ~listFailed[j]) =>
                    /\ toolCache[j].input = ListedFormats(j).input
                    /\ toolCache[j].output = ListedFormats(j).output
    /\ \A c \in Slots : pc[c] = "done" =>
            \A i \in 1..4 :
                (/\ listFailed[KindOrder[i]]
                 /\ Declaring(c) = {}
                 /\ \A h \in 1..(i - 1) : ~Installed(KindOrder[h]))
                    => callResult[c].kind = KindOrder[i]

C9_Witness ==
    \E c \in Slots :
        /\ pc[c] = "done"
        /\ listFailed["ffmpeg"]
        /\ callResult[c].kind = "ffmpeg"
        /\ callResult[c].tool.input = <<>>
        /\ toolCache["pandoc"].state = "tool"
        /\ toolCache["pandoc"].input # <<>>

\* the name buildOutputPath gives a temporary file
ClipboardName(b) ==
    basename(b.inputPath, extname(b.inputPath))
        \o <<"-converted-", b.unique, ".">> \o normalizeExt(b.outputExt)

\* C10: no two buildOutputPath calls with destination "clipboard" return the
\* same path, also with identical inputPath and outputExt, and each returned
\* path is {tmpdir}/{inputBaseName}-converted-{token}.{normalizedExt}
C10_ClipboardPathsUnique ==
    /\ \A i, j \in DOMAIN built :
            (i # j /\ built[i].destination = "clipboard" /\ built[j].destination = "clipboard")
                => built[i].path # built[j].path
    /\ \A i \in DOMAIN built : built[i].destination = "clipboard" =>
            /\ dirname(built[i].path) = tmpdir
            /\ Last(built[i].path) = ClipboardName(built[i])

\* the directory a "save" or "both" file is built in
SaveDir(b) == IF b.outputDir # NoDir THEN b.outputDir ELSE dirname(b.inputPath)

\* the name buildOutputPath gives a saved file
SaveName(b) ==
    basename(b.inputPath, extname(b.inputPath)) \o <<".">> \o normalizeExt(b.outputExt)

\* C11: for destination "save" or "both" buildOutputPath returns
\* {dir}/{inputBaseName}.{normalizedExt}, dir being outputDir when one is given
\* and the input file's directory otherwise; two calls with the same arguments
\* return the same path
C11_SavePathByName ==
    /\ \A i \in DOMAIN built : built[i].destination # "clipboard" =>
            /\ dirname(built[i].path) = SaveDir(built[i])
            /\ Last(built[i].path) = SaveName(built[i])
    /\ \A i, j \in DOMAIN built :
            (/\ built[i].destination # "clipboard"
             /\ built[i].inputPath = built[j].inputPath
             /\ built[i].outputExt = built[j].outputExt
             /\ built[i].outputDir = built[j].outputDir
             /\ built[i].destination = built[j].destination)
                => built[i].path = built[j].path

\* the lines of the message C12 describes for a failure
ExpectedMessage(err) ==
    <<err.message>>
        \o (IF err.stdout # "" THEN <<"\n", err.stdout>> ELSE <<>>)
        \o (IF err.stderr # "" THEN <<"\n", err.stderr>> ELSE <<>>)

\* C12: when the tool process exits non-zero or cannot be launched,
\* convertWithTool throws one error whose message is the process failure
\* message, the captured stdout and the captured stderr in that order, each
\* only if non-empty; it returns no path; and a call starts one process, never more
C12_ProcessFailureSingleError ==
    /\ convProcs <= 1
    /\ (convPc = "done" /\ convFailure # NoFailure) =>
            /\ convOutcome = "threw"
            /\ convResult = <<>>
            /\ convProcs = 1
            /\ convMessage = ExpectedMessage(convFailure)

C12_Witness ==
    /\ convPc = "done"
    /\ convFailure = ExitFailure("", "err")
    /\ convOutcome = "threw"
    /\ convMessage = <<"Command failed", "\n", "err">>
    /\ convProcs = 1

\* the positions in KindOrder of the tools the call found available
Available(c) == {i \in 1..4 : callTools[c][KindOrder[i]].state = "tool"}

\* C15: when no available tool declares the extension, detectConverter chooses
\* the first available tool in the order image, media, markup-document,
\* office-document; so the image tool whenever it is available
C15_CatchAllOrder ==
    \A c \in Slots : (pc[c] = "done" /\ Declaring(c) = {} /\ Available(c) # {}) =>
        /\ callResult[c].kind = KindOrder[Min(Available(c))]
        /\ callResult[c].tool = callTools[c][callResult[c].kind]
        /\ callTools[c]["magick"].state = "tool" => callResult[c].kind = "magick"

C15_Witness ==
    \E c \in Slots :
        /\ pc[c] = "done"
        /\ callExt[c] = S1("xyz")
        /\ Declaring(c) = {}
        /\ callTools[c]["magick"].state = "tool"
        /\ callTools[c]["ffmpeg"].state = "tool"
        /\ callTools[c]["ffmpeg"].input # <<>>
        /\ callResult[c].kind = "magick"

\* C16: for the office-document tool and every destination, the path
\* convertWithTool returns (the one buildOutputPath predicted) is the path the
\* tool writes, {--outdir}/{inputBaseName}.{outputExt}
C16_OfficePathPredicted ==
    (convPc = "done" /\ convOpts.converter = "libreoffice" /\ convOutcome = "returned") =>
        /\ convResult = convOpts.outputPath
        /\ writtenPath(convOpts) \in fs
        /\ convResult = writtenPath(convOpts)

\* the file the clipboard content stands for, <<>> if it stands for none
UsableFile(content, win) ==
    IF content.file # <<>> THEN content.file
    ELSE IF content.text # <<>>
    THEN LET trimmed == trim(content.text)
             local == IF trimmed # <<>> /\ Head(trimmed) = "file://"
                      THEN (IF fileURLToPath(trimmed, win).threw THEN <<>>
                            ELSE fileURLToPath(trimmed, win).path)
                      ELSE trimmed
         IN  IF local \in ExistingFiles(win) THEN local ELSE <<>>
    ELSE <<>>

\* C14: readClipboardFile never throws; for every clipboard content it returns
\* a path or null, and null whenever the clipboard holds no usable file
C14_ReadClipboardNeverThrows ==
    /\ readOutcome # "threw"
    /\ (readPc = "done" /\ ~clipboard.image /\ UsableFile(clipboard, isWindows) = <<>>) =>
            /\ readOutcome = "returned"
            /\ readResult = <<>>
            /\ clipInputPath = <<>>
            /\ ~clipLoading

\* a list of extensions as the descriptor invariant wants it: entries
\* lower-case, without a leading dot, not empty, no entry twice, ascending
NormalizedList(list) ==
    /\ \A i \in DOMAIN list :
            /\ list[i] # <<>>
            /\ list[i] = toLowerCase(list[i])
            /\ Head(list[i]) # "."
    /\ \A i, j \in DOMAIN list : i # j => list[i] # list[j]
    /\ \A i \in 1..(Len(list) - 1) : StrLess(list[i], list[i + 1])

\* C20: every descriptor in the memo table, of all four kinds, has input and
\* output lists that are lower-case, dot-free, without empty entries and
\* duplicates, and in ascending alphabetical order
C20_DescriptorListsNormalized ==
    \A k \in Kinds : toolCache[k].state = "tool" =>
        /\ NormalizedList(toolCache[k].input)
        /\ NormalizedList(toolCache[k].output)

\* C17, as stated: in every execution, with overlapping detectConverter
\* calls too, each kind's memo entry is written at most once and each kind's
\* probe is started at most once
C17_WrittenAtMostOnce ==
    \A k \in Kinds : cacheWrites[k] <= 1 /\ probeRuns[k] <= 1

\* the calls that are inside ensure<k>, between the start of the probe and
\* the write of the memo entry
Probing(k) == {c \in Slots : pc[c] \in {"resolve", "list"} /\ CurrentKind(c) = k}

\* C17, amended: a probe of a kind is started only while the kind's memo entry
\* is unset and each started probe ends in one write of the entry; so an entry
\* is written, and its probe started, once per call that entered ensure<kind>
\* before the first write: once when calls do not overlap, up to once per
\* overlapping call otherwise
C17_WrittenOncePerOverlappingCall ==
    /\ [](\A k \in Kinds :
            /\ probeRuns[k] <= callsStarted
            /\ probeRuns[k] = cacheWrites[k] + Cardinality(Probing(k))
            /\ toolCache[k].state = "undefined" <=> cacheWrites[k] = 0)
    /\ [][\A k \in Kinds :
            /\ probeRuns'[k] # probeRuns[k] =>
                    toolCache[k].state = "undefined" /\ probeRuns'[k] = probeRuns[k] + 1
            /\ cacheWrites'[k] # cacheWrites[k] =>
                    /\ cacheWrites'[k] = cacheWrites[k] + 1
                    /\ toolCache'[k].state # "undefined"
                    /\ \E c \in Probing(k) : pc'[c] \notin {"resolve", "list"}
         ]_vars

C17_Witness ==
    /\ probeRuns["magick"] = 2
    /\ cacheWrites["magick"] = 2
    /\ toolCache["magick"].state = "tool"
    /\ \A c \in Slots : pc[c] = "done"

\* C13: in both submit handlers, when the resolved tool's output list is not
\* empty and the normalized requested extension is not in it, the submission
\* ends with the unsupported-format failure and convertWithTool is not called;
\* when the list is empty every non-empty extension is passed on to convertWithTool
C13_UnsupportedNeverConverted ==
    /\ (/\ submit.pc \in {"converting", "done"}
        /\ submit.decision # NoDecision
        /\ normalizeExt(submit.requested) # <<>>) =>
            LET outputExt == normalizeExt(submit.requested)
                supportedOutputs == submit.decision.tool.output
            IN  /\ (supportedOutputs # <<>> /\ outputExt \notin Range(supportedOutputs)) =>
                        /\ submit.outcome = "unsupported"
                        /\ ~submit.called
                        /\ Len(convertCalls) < submits
                /\ supportedOutputs = <<>> =>
                        /\ submit.called
                        /\ convertCalls # <<>>
                        /\ Last(convertCalls).outputExt = outputExt
                        /\ Last(convertCalls).handler = submit.handler
    /\ \A i \in DOMAIN convertCalls :
            \/ convertCalls[i].tool.output = <<>>
            \/ convertCalls[i].outputExt \in Range(convertCalls[i].tool.output)

C13_Witness ==
    /\ submit.handler = "Command"
    /\ submit.pc = "done"
    /\ submit.outcome = "unsupported"
    /\ submit.decision.kind = "magick"
    /\ submit.outputExt = S1("xyz")
    /\ convertCalls = <<>>

\* C18: when a converter-lookup effect has been abandoned (its input changed
\* or its component was torn down) before its detectConverter call settles,
\* the late result writes neither the decision nor the output format; an
\* effect that does write is the one of the current input
C18_AbandonedLookupDiscarded ==
    [][\A i \in DOMAIN lookups :
            (~lookups[i].settled /\ lookups'[i].settled) =>
                IF lookups[i].cancelled
                THEN /\ uiDecision' = uiDecision
                     /\ uiOutputFormat' = uiOutputFormat
                     /\ ~lookups'[i].wrote
                ELSE /\ uiInputPath # NoFile
                     /\ getFileExt(lookups[i].input) = getFileExt(uiInputPath)
                     /\ \A j \in DOMAIN lookups : j > i => ~lookups[j].wrote
      ]_vars

C18_Witness ==
    /\ Len(lookups) = 2
    /\ lookups[1].cancelled /\ lookups[1].settled /\ ~lookups[1].wrote
    /\ lookups[2].wrote
    /\ lookups[1].input # lookups[2].input
    /\ uiDecision = detected(getFileExt(lookups[2].input), toolCache)
    /\ uiDecision # detected(getFileExt(lookups[1].input), toolCache)

\* C19: whenever Command.handleSubmit calls convertWithTool, the converter
\* kind and the tool descriptor it passes are the ones detectConverter yields
\* for the extension of the submitted input file
C19_SubmitUsesDecisionOfInput ==
    \A i \in DOMAIN convertCalls : convertCalls[i].handler = "Command" =>
        LET resolved == detected(getFileExt(convertCalls[i].inputPath), toolCache) IN
        /\ convertCalls[i].converter = resolved.kind
        /\ convertCalls[i].tool = resolved.tool

\* the calls the handler has completed since convertWithTool returned are
\* exactly those the destination asks for, the copy before the open
EffectsInOrder ==
    /\ \A i \in DOMAIN submit.effects :
        /\ submit.effects[i] = "copy" => submit.destination \in {"clipboard", "both"}
        /\ submit.effects[i] = "open" =>
                submit.destination \in {"save", "both"} /\ submit.openAfter
    /\ \A i, j \in DOMAIN submit.effects :
        submit.effects[i] = "copy" /\ submit.effects[j] = "open" => i < j
    /\ submit.copied <=> \E i \in DOMAIN submit.effects : submit.effects[i] = "copy"
    /\ submit.opened <=> \E i \in DOMAIN submit.effects : submit.effects[i] = "open"
    /\ submit.opened /\ submit.destination = "both" => submit.copied

\* as long as convertWithTool has not returned successfully, the handler has
\* copied nothing, opened nothing, not called onConverted and not popped the view
NothingBeforeReturn ==
    ~submit.returned =>
        /\ submit.effects = <<>>
        /\ ~submit.copied /\ ~submit.opened /\ ~submit.onConverted /\ ~submit.popped

\* a step in which convertWithTool fails leaves the clipboard and the view as
\* they are, and the clipboard and the view change only in a step of a handler
\* whose convertWithTool call has returned
FailureChangesNothing ==
    /\ (submit.pc = "converting" /\ submit'.outcome = "failed") =>
            /\ clipboard' = clipboard
            /\ form' = form
            /\ submit'.effects = <<>>
            /\ ~submit'.copied /\ ~submit'.opened /\ ~submit'.onConverted /\ ~submit'.popped
    /\ clipboard' # clipboard => submit.returned /\ submit'.copied /\ ~submit.copied
    /\ (form.open /\ ~form'.open) => submit.returned /\ submit'.popped

\* C21: in both submit handlers, when convertWithTool fails the clipboard is
\* unchanged, no file is opened, onConverted is not called and the view is not
\* popped; the copy to the clipboard (destination clipboard or both) and the
\* open (save or both, with openAfter) happen only after convertWithTool has
\* returned successfully, the copy before the open
C21_EffectsOnlyAfterSuccess ==
    /\ [](EffectsInOrder /\ NothingBeforeReturn)
    /\ [][FailureChangesNothing]_vars

\* a ConvertForm submission to both destinations, opening afterwards, whose
\* convertWithTool call has failed
C21_Witness ==
    /\ submit.handler = "ConvertForm"
    /\ submit.called
    /\ ~submit.returned
    /\ submit.outcome = "failed"
    /\ submit.destination = "both"
    /\ submit.openAfter
    /\ form.open
    /\ clipboard = ClipboardContent(NoText, NoText, FALSE)

====
